---- MODULE Spec2Model ----
(***************************************************************************)
(* Model of the performance-driven notes pipeline of                       *)
(* backend/services/notes_generator.py (NotesGeneratorService).            *)
(*                                                                         *)
(* Python str values whose characters the code inspects (answers, question *)
(* texts) are sequences of one-character strings; words, topic keywords    *)
(* and dictionary keys built from them are TLA+ strings built with \o.     *)
(* score_percentage is the exact rational correct/total*100, kept as a     *)
(* reduced fraction [num, den]; relevance scores are hundredths (0.6 is    *)
(* 60).                                                                    *)
(***************************************************************************)
EXTENDS Integers, Sequences, FiniteSets, TLC

VARIABLES
    op,                \* the service method the caller invoked
    pc,                \* control point inside that method
    questions,         \* argument: List[Question]
    answers,           \* argument: quiz_attempt.answers (dict question_id -> str)
    pdf_document,      \* argument: PDFDocument (id, original_filename)
    analysis,          \* result of analyze_quiz_performance, or None
    weak_topics,       \* argument weak_topics of find_relevant_content
    max_chunks,        \* argument max_chunks of find_relevant_content
    ti,                \* index of the topic being searched (for topic in weak_topics)
    qi,                \* index of the query being issued (for query in search_queries)
    relevant_content,  \* local list relevant_content of find_relevant_content
    calls,             \* calls made to embedding_service.similarity_search
    found,             \* list returned by find_relevant_content, or None
    model_call,        \* how the generative model's call ended: returned, raised, or None
    notes,             \* dict returned by generate_personalized_notes, or None
    raised,            \* TRUE when an exception escaped to the caller
    now,               \* datetime.now(), in seconds
    general_results,   \* local general_results of find_relevant_content
    search_errors,     \* similarity_search calls that raised: none, some or all of them
    stages,            \* the stages of the request that have run, in order
    rpc,               \* control point of the router handler serving the request
    request,           \* the request being served (endpoint, caller, path parameter)
    stored_notes,      \* Firestore collection study_notes: document id -> document
    test_storage,      \* test_storage['notes'] of utils/database.py
    response,          \* what the handler answered: a NotesResponse or an HTTP error
    served,            \* requests received so far
    model_attempts,    \* calls made to gemini_service.model.generate_content
    args,              \* arguments of a method called on its own
    outcome,           \* what that call gave back: a value or an exception
    _pinecone_initialized, \* EmbeddingService._pinecone_initialized
    index,             \* EmbeddingService.index
    init_attempts,     \* times _init_pinecone went on to call pinecone.init
    query_results,     \* local results of similarity_search: what index.query gave
    runs               \* the locals of each of the concurrent pipeline runs

vars == <<op, pc, questions, answers, pdf_document, analysis, weak_topics,
          max_chunks, ti, qi, relevant_content, calls, found, model_call, notes,
          raised, now, general_results, search_errors, stages, rpc, request,
          stored_notes, test_storage, response, served, model_attempts, args,
          outcome, _pinecone_initialized, index, init_attempts,
          query_results, runs>>

\* the state of the router and of the database, which the service never touches
routerVars == <<rpc, request, stored_notes, test_storage, response, served>>

\* the state of the methods called on their own, of the EmbeddingService
\* instance and of the concurrent runs
componentVars == <<args, outcome, _pinecone_initialized, index, init_attempts,
                   query_results, runs>>

None == "None"

(***************************************************************************)
(* Python str primitives                                                   *)
(***************************************************************************)
UpperCase == <<"A","B","C","D","E","F","G","H","I","J","K","L","M",
               "N","O","P","Q","R","S","T","U","V","W","X","Y","Z">>
LowerCase == <<"a","b","c","d","e","f","g","h","i","j","k","l","m",
               "n","o","p","q","r","s","t","u","v","w","x","y","z">>
Digits == <<"0","1","2","3","4","5","6","7","8","9">>
Whitespace == {" ", "\t", "\n"}

InSeq(c, s) == \E i \in 1..Len(s) : s[i] = c

\* one character of str.lower()
LowerChar(c) ==
    IF InSeq(c, UpperCase)
    THEN LowerCase[CHOOSE i \in 1..Len(UpperCase) : UpperCase[i] = c]
    ELSE c

\* str.lower()
lower(s) == [i \in 1..Len(s) |-> LowerChar(s[i])]

RECURSIVE lstrip(_)
lstrip(s) == IF s # <<>> /\ Head(s) \in Whitespace THEN lstrip(Tail(s)) ELSE s

RECURSIVE rstrip(_)
rstrip(s) ==
    IF s # <<>> /\ s[Len(s)] \in Whitespace
    THEN rstrip(SubSeq(s, 1, Len(s) - 1))
    ELSE s

\* str.strip()
strip(s) == rstrip(lstrip(s))

\* "".join(chars): the characters as one string value
RECURSIVE Join(_)
Join(s) == IF s = <<>> THEN "" ELSE Head(s) \o Join(Tail(s))

\* a character matched by \w
WordChar(c) == InSeq(c, UpperCase) \/ InSeq(c, LowerCase) \/ InSeq(c, Digits) \/ c = "_"

\* whether c belongs to a token: any non-whitespace character for str.split(),
\* a \w character for the pattern \b\w+\b
InToken(kind, c) == IF kind = "split" THEN c \notin Whitespace ELSE WordChar(c)

\* the maximal runs of token characters, left to right
RECURSIVE Runs(_, _, _)
Runs(s, cur, kind) ==
    IF s = <<>>
    THEN IF cur = <<>> THEN <<>> ELSE <<Join(cur)>>
    ELSE IF InToken(kind, Head(s))
         THEN Runs(Tail(s), Append(cur, Head(s)), kind)
         ELSE (IF cur = <<>> THEN <<>> ELSE <<Join(cur)>>) \o Runs(Tail(s), <<>>, kind)

\* str.split(): the whitespace-separated words
split(s) == Runs(s, <<>>, "split")

\* re.findall(r'\b\w+\b', s)
findall_words(s) == Runs(s, <<>>, "word")

\* str(n) for an int n
RECURSIVE StrNat(_)
StrNat(n) == IF n < 10 THEN Digits[n + 1] ELSE StrNat(n \div 10) \o Digits[(n % 10) + 1]

str(n) == IF n < 0 THEN "-" \o StrNat(0 - n) ELSE StrNat(n)

SeqToSet(s) == {s[i] : i \in 1..Len(s)}

\* s[:n] for n >= 0 and for n < 0
Slice(s, n) ==
    IF n >= 0
    THEN SubSeq(s, 1, IF n < Len(s) THEN n ELSE Len(s))
    ELSE SubSeq(s, 1, IF Len(s) + n > 0 THEN Len(s) + n ELSE 0)

(***************************************************************************)
(* Exact arithmetic for score_percentage                                   *)
(***************************************************************************)
RECURSIVE GCD(_, _)
GCD(a, b) == IF b = 0 THEN a ELSE GCD(b, a % b)

\* the fraction n/d (n >= 0, d > 0) in lowest terms
Rat(n, d) == LET g == GCD(n, d) IN [num |-> n \div g, den |-> d \div g]

\* r >= k for a fraction r and an integer k
RatGE(r, k) == r.num >= k * r.den

(***************************************************************************)
(* Performance Analyzer                                                    *)
(***************************************************************************)
\* quiz_attempt.answers.get(question_id, "")
AnswerGet(ans, question_id) ==
    IF question_id \in DOMAIN ans THEN ans[question_id] ELSE <<>>

\* mutant: the overlap compared with the number of distinct canonical words
_evaluate_answer_quality_Distinct(question, user_answer) ==
    IF question.question_type \in {"multiple_choice", "true_false"}
    THEN strip(lower(user_answer)) = strip(lower(question.correct_answer))
    ELSE LET correct_keywords == SeqToSet(split(lower(question.correct_answer)))
             user_keywords == SeqToSet(split(lower(user_answer)))
         IN  2 * Cardinality(correct_keywords \cap user_keywords)
                >= Cardinality(correct_keywords)

_evaluate_answer_quality(question, user_answer) ==
    IF question.question_type = "multiple_choice"
    THEN strip(lower(user_answer)) = strip(lower(question.correct_answer))
    ELSE IF question.question_type = "true_false"
    THEN strip(lower(user_answer)) = strip(lower(question.correct_answer))
    ELSE LET correct_keywords == split(lower(question.correct_answer))
             user_keywords == split(lower(user_answer))
             overlap == Cardinality(SeqToSet(correct_keywords) \cap SeqToSet(user_keywords))
         IN  2 * overlap >= Len(correct_keywords)

question_words ==
    {"what", "how", "why", "when", "where", "which", "who", "is", "are", "the", "a", "an",
     "does", "do", "can", "will", "would", "should", "could", "might", "may", "must",
     "this", "that", "these", "those", "and", "or", "but", "for", "with", "from", "to"}

\* len(word) > 3 and word not in question_words
IsKeyword(word) == Len(word) > 3 /\ word \notin question_words

\* mutant: the loop stops one position early, range(len(words) - 2)
RECURSIVE word_pairs_Short(_, _)
word_pairs_Short(words, i) ==
    IF i >= Len(words) - 1 THEN <<>>
    ELSE (IF IsKeyword(words[i]) /\ IsKeyword(words[i + 1])
          THEN <<words[i] \o "_" \o words[i + 1]>>
          ELSE <<>>) \o word_pairs_Short(words, i + 1)

\* the loop over range(len(words) - 1), from 1-based position i
RECURSIVE word_pairs(_, _)
word_pairs(words, i) ==
    IF i >= Len(words) THEN <<>>
    ELSE (IF IsKeyword(words[i]) /\ IsKeyword(words[i + 1])
          THEN <<words[i] \o "_" \o words[i + 1]>>
          ELSE <<>>) \o word_pairs(words, i + 1)

\* mutant: the single words are put before the compounds
_extract_topic_keywords_WordsFirst(question_text) ==
    LET words == findall_words(lower(question_text))
        keywords == SelectSeq(words, IsKeyword)
        all_keywords == keywords \o word_pairs(words, 1)
    IN  Slice(all_keywords, 8)

_extract_topic_keywords(question_text) ==
    LET words == findall_words(lower(question_text))
        keywords == SelectSeq(words, IsKeyword)
        all_keywords == word_pairs(words, 1) \o keywords
    IN  Slice(all_keywords, 8)

\* number of positions of s holding x
Count(s, x) == Cardinality({i \in 1..Len(s) : s[i] = x})

\* the keys of a dict filled in the order of s: first occurrences, in order
FirstSeen(s) ==
    LET first == SelectSeq([i \in 1..Len(s) |-> i],
                           LAMBDA i : \A j \in 1..(i - 1) : s[j] # s[i])
    IN  [k \in 1..Len(first) |-> s[first[k]]]

\* the pair x = <<key, item>> put into a list of pairs sorted by key descending,
\* behind every pair whose key is >= its own
RECURSIVE InsertDesc(_, _)
InsertDesc(sorted, x) ==
    IF sorted = <<>> THEN <<x>>
    ELSE IF Head(sorted)[1] >= x[1]
         THEN <<Head(sorted)>> \o InsertDesc(Tail(sorted), x)
         ELSE <<x>> \o sorted

RECURSIVE SortPairsDesc(_)
SortPairsDesc(pairs) ==
    IF pairs = <<>> THEN <<>>
    ELSE InsertDesc(SortPairsDesc(SubSeq(pairs, 1, Len(pairs) - 1)), pairs[Len(pairs)])

\* sorted(items, key=Key, reverse=True): stable, equal keys keep their order
SortedDesc(items, Key(_)) ==
    LET pairs == SortPairsDesc([i \in 1..Len(items) |-> <<Key(items[i]), items[i]>>])
    IN  [i \in 1..Len(pairs) |-> pairs[i][2]]

\* every keyword of every record, in iteration order
RECURSIVE AllKeywords(_)
AllKeywords(weak_questions) ==
    IF weak_questions = <<>> THEN <<>>
    ELSE Head(weak_questions).topic_keywords \o AllKeywords(Tail(weak_questions))

\* mutant: reverse=True forgotten, the rarest keywords come first
_identify_weak_topics_Ascending(weak_questions) ==
    LET seen == AllKeywords(weak_questions)
        keys == FirstSeen(seen)
        topic_frequency == [i \in 1..Len(keys) |-> <<keys[i], Count(seen, keys[i])>>]
        sorted_topics == SortedDesc(topic_frequency, LAMBDA x : 0 - x[2])
        top == Slice(sorted_topics, 10)
    IN  [i \in 1..Len(top) |-> top[i][1]]

_identify_weak_topics(weak_questions) ==
    LET seen == AllKeywords(weak_questions)
        keys == FirstSeen(seen)
        topic_frequency == [i \in 1..Len(keys) |-> <<keys[i], Count(seen, keys[i])>>]
        sorted_topics == SortedDesc(topic_frequency, LAMBDA x : x[2])
        top == Slice(sorted_topics, 10)
    IN  [i \in 1..Len(top) |-> top[i][1]]

_determine_performance_level(score_percentage) ==
    IF RatGE(score_percentage, 90) THEN "excellent"
    ELSE IF RatGE(score_percentage, 80) THEN "good"
    ELSE IF RatGE(score_percentage, 70) THEN "satisfactory"
    ELSE IF RatGE(score_percentage, 60) THEN "needs_improvement"
    ELSE "requires_significant_study"

\* the dict performance_data built for one question
performance_data(ans, question) ==
    LET user_answer == AnswerGet(ans, question.id)
    IN  [question_id |-> question.id,
         question_text |-> question.question_text,
         topic_keywords |-> _extract_topic_keywords(question.question_text),
         user_answer |-> user_answer,
         correct_answer |-> question.correct_answer,
         is_correct |-> _evaluate_answer_quality(question, user_answer),
         difficulty |-> question.difficulty,
         explanation |-> question.explanation]

\* mutant: the weak/needs-review boundary taken as difficulty > 3
Categorize_Above3(lists, data) ==
    IF ~data.is_correct
    THEN IF data.difficulty > 3
         THEN [lists EXCEPT !.weak_areas = Append(@, data)]
         ELSE [lists EXCEPT !.needs_review = Append(@, data)]
    ELSE [lists EXCEPT !.strong_areas = Append(@, data)]

\* one iteration of "for question in questions": the record goes to one list
Categorize(lists, data) ==
    IF ~data.is_correct
    THEN IF data.difficulty >= 3
         THEN [lists EXCEPT !.weak_areas = Append(@, data)]
         ELSE [lists EXCEPT !.needs_review = Append(@, data)]
    ELSE [lists EXCEPT !.strong_areas = Append(@, data)]

\* the three lists after the first n questions
RECURSIVE CategorizeAll(_, _, _)
CategorizeAll(ans, qs, n) ==
    IF n = 0
    THEN [weak_areas |-> <<>>, needs_review |-> <<>>, strong_areas |-> <<>>]
    ELSE Categorize(CategorizeAll(ans, qs, n - 1), performance_data(ans, qs[n]))

\* mutant: integer division before the multiplication
ScorePercentage_FloorDiv(correct_answers, total_questions) ==
    IF total_questions > 0 THEN Rat(100 * (correct_answers \div total_questions), 1)
    ELSE Rat(0, 1)

\* (correct_answers / total_questions) * 100 if total_questions > 0 else 0
ScorePercentage(correct_answers, total_questions) ==
    IF total_questions > 0 THEN Rat(100 * correct_answers, total_questions) ELSE Rat(0, 1)

analyze_quiz_performance(ans, qs) ==
    LET lists == CategorizeAll(ans, qs, Len(qs))
        total_questions == Len(qs)
        correct_answers == Len(lists.strong_areas)
        score_percentage == ScorePercentage(correct_answers, total_questions)
    IN  [total_questions |-> total_questions,
         correct_answers |-> correct_answers,
         score_percentage |-> score_percentage,
         weak_areas |-> lists.weak_areas,
         needs_review |-> lists.needs_review,
         strong_areas |-> lists.strong_areas,
         weak_topics |-> _identify_weak_topics(lists.weak_areas \o lists.needs_review),
         performance_level |-> _determine_performance_level(score_percentage)]

(***************************************************************************)
(* Study Planner                                                           *)
(***************************************************************************)
_determine_study_priority(performance_level) ==
    CASE performance_level = "excellent" -> "low"
      [] performance_level = "good" -> "low"
      [] performance_level = "satisfactory" -> "medium"
      [] performance_level = "needs_improvement" -> "high"
      [] performance_level = "requires_significant_study" -> "urgent"
      [] OTHER -> "medium"

\* mutant: the 80 band entered only above 80
_estimate_study_time_Above80(performance_analysis) ==
    LET score == performance_analysis.score_percentage
    IN  IF RatGE(score, 90) THEN "15-30 minutes review"
        ELSE IF RatGE(score, 80) /\ score # Rat(80, 1) THEN "30-45 minutes focused study"
        ELSE IF RatGE(score, 70) THEN "1-2 hours comprehensive review"
        ELSE IF RatGE(score, 60) THEN "2-3 hours intensive study"
        ELSE "3+ hours deep learning required"

_estimate_study_time(performance_analysis) ==
    LET score == performance_analysis.score_percentage
    IN  IF RatGE(score, 90) THEN "15-30 minutes review"
        ELSE IF RatGE(score, 80) THEN "30-45 minutes focused study"
        ELSE IF RatGE(score, 70) THEN "1-2 hours comprehensive review"
        ELSE IF RatGE(score, 60) THEN "2-3 hours intensive study"
        ELSE "3+ hours deep learning required"

(***************************************************************************)
(* Content Aggregator                                                      *)
(***************************************************************************)
\* len(search_queries): the query templates built for one topic
NumQueries == 8
\* top_k of a topic query and of the general query
TopicTopK == 5
GeneralTopK == 10
\* result["score"] > 0.6, in hundredths
ScoreThreshold == 60

\* search_queries[k - 1] for a topic: the template filled with the topic
TopicQuery(k, topic) ==
    CASE k = 1 -> "What is " \o topic \o "? Definition and explanation"
      [] k = 2 -> "Explain " \o topic \o " in detail with examples"
      [] k = 3 -> "How does " \o topic \o " work? Process and mechanism"
      [] k = 4 -> topic \o " definition examples applications"
      [] k = 5 -> "Key concepts related to " \o topic
      [] k = 6 -> "Important aspects of " \o topic
      [] k = 7 -> "Understanding " \o topic \o " fundamentals"
      [] k = 8 -> topic \o " principles and theory"

GeneralQuery == "main concepts key information important topics"

\* the dict appended for a retrieved result
ContentItem(topic, query, result) ==
    [topic |-> topic,
     query |-> query,
     content |-> result.text,
     relevance_score |-> result.score,
     chunk_index |-> result.chunk_index,
     source |-> "pdf_content"]

\* mutant: a result scoring exactly the threshold is kept too
TopicItems_AtLeast(topic, query, results) ==
    LET kept == SelectSeq(results, LAMBDA result : result.score >= ScoreThreshold)
    IN  [i \in 1..Len(kept) |-> ContentItem(topic, query, kept[i])]

\* the items a topic query adds: the results scoring above the threshold
TopicItems(topic, query, results) ==
    LET kept == SelectSeq(results, LAMBDA result : result.score > ScoreThreshold)
    IN  [i \in 1..Len(kept) |-> ContentItem(topic, query, kept[i])]

\* the items the general query adds: every result
GeneralItems(results) ==
    [i \in 1..Len(results) |-> ContentItem("general_content", "general_search", results[i])]

\* f"{item['topic']}_{item['chunk_index']}"
UniqueKey(item) == item.topic \o "_" \o str(item.chunk_index)

\* mutant: an equal score replaces the item already kept
UniqueStep_KeepLast(unique_content, item) ==
    LET key == item.topic \o "_" \o str(item.chunk_index)
        at == {i \in 1..Len(unique_content) : unique_content[i][1] = key}
    IN  IF at = {}
        THEN Append(unique_content, <<key, item>>)
        ELSE LET i == CHOOSE i \in at : TRUE
             IN  IF item.relevance_score >= unique_content[i][2].relevance_score
                 THEN [unique_content EXCEPT ![i] = <<key, item>>]
                 ELSE unique_content

\* one iteration of "for item in relevant_content" on the dict unique_content,
\* kept as the sequence of its <<key, value>> entries in insertion order
UniqueStep(unique_content, item) ==
    LET key == UniqueKey(item)
        at == {i \in 1..Len(unique_content) : unique_content[i][1] = key}
    IN  IF at = {}
        THEN Append(unique_content, <<key, item>>)
        ELSE LET i == CHOOSE i \in at : TRUE
             IN  IF item.relevance_score > unique_content[i][2].relevance_score
                 THEN [unique_content EXCEPT ![i] = <<key, item>>]
                 ELSE unique_content

\* unique_content after the first n items
RECURSIVE UniqueContent(_, _)
UniqueContent(items, n) ==
    IF n = 0 THEN <<>> ELSE UniqueStep(UniqueContent(items, n - 1), items[n])

\* mutant: the deduplicated items are cut without being sorted
RankContent_Unsorted(items, limit) ==
    LET unique_content == UniqueContent(items, Len(items))
    IN  Slice([i \in 1..Len(unique_content) |-> unique_content[i][2]], limit)

\* lines 206-215: deduplicate, sort by relevance, cut to max_chunks
RankContent(items, limit) ==
    LET unique_content == UniqueContent(items, Len(items))
        values == [i \in 1..Len(unique_content) |-> unique_content[i][2]]
        sorted_content == SortedDesc(values, LAMBDA x : x.relevance_score)
    IN  Slice(sorted_content, limit)


(***************************************************************************)
(* Notes Synthesizer                                                       *)
(*                                                                         *)
(* A note body is the sequence of its sections; the empty str is <<>>.     *)
(***************************************************************************)
\* mutant: needs_improvement is given the days of satisfactory
_suggest_review_date_Flat(performance_level, instant) ==
    LET days == CASE performance_level = "excellent" -> 7
                  [] performance_level = "good" -> 5
                  [] performance_level = "requires_significant_study" -> 1
                  [] OTHER -> 3
    IN  [date_of |-> instant, plus_days |-> days]

\* lines 541-553: days_map.get(performance_level, 3) days after datetime.now(),
\* as a date
_suggest_review_date(performance_level, instant) ==
    LET days == CASE performance_level = "excellent" -> 7
                  [] performance_level = "good" -> 5
                  [] performance_level = "satisfactory" -> 3
                  [] performance_level = "needs_improvement" -> 2
                  [] performance_level = "requires_significant_study" -> 1
                  [] OTHER -> 3
    IN  [date_of |-> instant, plus_days |-> days]

\* list(content_by_topic.keys()): the topics of the items, in first-seen order
ContentTopics(content) == FirstSeen([i \in 1..Len(content) |-> content[i].topic])

\* content_by_topic[topic]: the contents of the topic's items, in order
ContentsOf(content, topic) ==
    LET items == SelectSeq(content, LAMBDA item : item.topic = topic)
    IN  [i \in 1..Len(items) |-> items[i].content]

\* the block "### {i}. {topic}" of the fallback notes, with contents[:3]
TopicBlock(i, topic, contents) ==
    [section |-> "topic", number |-> i, topic |-> topic, contents |-> Slice(contents, 3)]

\* mutant: topic blocks are written for the weak topics only
FallbackBody_WeakOnly(performance_analysis, content, document, instant) ==
    LET topics == SelectSeq(ContentTopics(content),
                            LAMBDA t : t \in SeqToSet(performance_analysis.weak_topics))
    IN  <<[section |-> "Comprehensive Study Notes", title |-> document.original_filename],
          [section |-> "Executive Summary"]>>
        \o [i \in 1..Len(topics) |-> TopicBlock(i, topics[i], ContentsOf(content, topics[i]))]

\* the f-strings of _create_fallback_notes, section by section
FallbackBody(performance_analysis, content, document, instant) ==
    LET weak == performance_analysis.weak_topics
        topics == ContentTopics(content)
    IN  <<[section |-> "Comprehensive Study Notes", title |-> document.original_filename],
          [section |-> "Executive Summary",
           score |-> performance_analysis.score_percentage,
           level |-> performance_analysis.performance_level,
           focus |-> Slice(weak, 5)],
          [section |-> "Performance Analysis",
           total |-> performance_analysis.total_questions,
           correct |-> performance_analysis.correct_answers,
           topics_identified |-> Len(weak)],
          [section |-> "Priority Topics for Detailed Review"]>>
        \o [i \in 1..Len(topics) |-> TopicBlock(i, topics[i], ContentsOf(content, topics[i]))]
        \o <<[section |-> "Comprehensive Study Strategy",
              level |-> performance_analysis.performance_level],
             [section |-> "Success Metrics"],
             [section |-> "Next Steps",
              estimated_study_time |-> _estimate_study_time(performance_analysis),
              review_date |->
                  _suggest_review_date(performance_analysis.performance_level, instant)]>>

\* f"notes_{pdf_document.id}_{int(datetime.now().timestamp())}"
NotesId(document, instant) == <<"notes", document.id, instant>>

_create_fallback_notes(performance_analysis, content, document, instant) ==
    [id |-> NotesId(document, instant),
     pdf_id |-> document.id,
     pdf_title |-> document.original_filename,
     generated_at |-> instant,
     performance_summary |->
         [score |-> performance_analysis.score_percentage,
          weak_topics |-> performance_analysis.weak_topics,
          total_questions |-> performance_analysis.total_questions],
     study_notes |-> FallbackBody(performance_analysis, content, document, instant),
     relevant_content_sources |-> Len(content),
     topics_covered |-> ContentTopics(content),
     study_priority |-> _determine_study_priority(performance_analysis.performance_level),
     estimated_study_time |-> _estimate_study_time(performance_analysis)]

\* notes_data of generate_personalized_notes when the model returned generated_notes
GeneratedNotes(performance_analysis, content, document, generated_notes, instant) ==
    [id |-> NotesId(document, instant),
     pdf_id |-> document.id,
     pdf_title |-> document.original_filename,
     generated_at |-> instant,
     performance_summary |->
         [score |-> performance_analysis.score_percentage,
          level |-> performance_analysis.performance_level,
          weak_topics |-> performance_analysis.weak_topics,
          total_questions |-> performance_analysis.total_questions,
          correct_answers |-> performance_analysis.correct_answers],
     study_notes |-> generated_notes,
     relevant_content_sources |-> Len(content),
     topics_covered |-> ContentTopics(content),
     study_priority |-> _determine_study_priority(performance_analysis.performance_level),
     estimated_study_time |-> _estimate_study_time(performance_analysis),
     next_review_date |->
         _suggest_review_date(performance_analysis.performance_level, instant)]


(***************************************************************************)
(* Inputs: question texts, canonical answers, submitted answers            *)
(***************************************************************************)
\* "How do cell gene atom bond?"
TextCellGene ==
    <<"H","o","w"," ","d","o"," ","c","e","l","l"," ","g","e","n","e"," ","a","t","o","m"," ","b","o","n","d","?">>
\* "Mass heat wave cell"
TextWave ==
    <<"M","a","s","s"," ","h","e","a","t"," ","w","a","v","e"," ","c","e","l","l">>
\* "What is a cell?"
TextCell == <<"W","h","a","t"," ","i","s"," ","a"," ","c","e","l","l","?">>
\* "Is DNA a gene?"
TextGene == <<"I","s"," ","D","N","A"," ","a"," ","g","e","n","e","?">>

\* "Gene", "heat wave", " " and ""
CanonGene == <<"G","e","n","e">>
CanonHeatWave == <<"h","e","a","t"," ","w","a","v","e">>
CanonBlank == <<" ">>
CanonEmpty == <<>>

\* " GENE", "Heat" and "no"
AnsGene == <<" ","G","E","N","E">>
AnsHeat == <<"H","e","a","t">>
AnsNo == <<"n","o">>

Question(text, type, correct, diff) ==
    [id |-> None, question_text |-> text, question_type |-> type,
     correct_answer |-> correct, difficulty |-> diff, explanation |-> None]

QMultipleChoice == Question(TextCellGene, "multiple_choice", CanonGene, 3)
QShortAnswer == Question(TextWave, "short_answer", CanonHeatWave, 2)
QTrueFalseBlank == Question(TextCell, "true_false", CanonBlank, 3)
QShortEmpty == Question(TextGene, "short_answer", CanonEmpty, 2)

\* the questions a quiz is drawn from (ids are given by position)
QuestionBank == {QMultipleChoice, QShortAnswer, QTrueFalseBlank, QShortEmpty}

\* question.id of the question at position i of a quiz
QuestionId(i) == "q" \o str(i)

\* the quiz whose i-th question is f[i], for a sequence f of bank questions
QuizOf(f) == [i \in 1..Len(f) |-> [f[i] EXCEPT !.id = QuestionId(i)]]

QuestionIds(qs) == {qs[i].id : i \in 1..Len(qs)}

\* "Heat heat wave" and "gene\theat wave cell"
CanonHeatHeatWave == <<"H","e","a","t"," ","h","e","a","t"," ","w","a","v","e">>
CanonFourWords ==
    <<"g","e","n","e","\t","h","e","a","t"," ","w","a","v","e"," ","c","e","l","l">>

\* "", "gene", "WAVE  heat", "heat\tno" and "Heat wave "
AnsEmpty == <<>>
AnsGeneLower == <<"g","e","n","e">>
AnsWaveHeat == <<"W","A","V","E"," "," ","h","e","a","t">>
AnsHeatNo == <<"h","e","a","t","\t","n","o">>
AnsHeatWave == <<"H","e","a","t"," ","w","a","v","e"," ">>

\* canonical answers and submitted answers given to the evaluator
EvalCanonicals ==
    {CanonGene, CanonHeatWave, CanonBlank, CanonEmpty, CanonHeatHeatWave, CanonFourWords}
EvalAnswers ==
    {AnsEmpty, AnsGene, AnsGeneLower, AnsHeat, AnsNo, AnsWaveHeat, AnsHeatNo, AnsHeatWave}
QuestionTypes == {"multiple_choice", "true_false", "short_answer"}

\* what a user may have submitted for one question
SubmittedAnswers == {AnsGene, AnsHeat}

\* the text stored for a chunk of the document
ChunkText(chunk_index) == "chunk " \o str(chunk_index)

\* one match returned by the retriever
Match(score, chunk_index) ==
    [score |-> score, text |-> ChunkText(chunk_index), chunk_index |-> chunk_index]

\* what similarity_search may return to find_relevant_content called on its own
FindResponses ==
    {<<>>,
     <<Match(90, 0)>>, <<Match(70, 0)>>, <<Match(70, 1)>>, <<Match(60, 1)>>,
     <<Match(60, 0), Match(90, 1)>>}

\* what similarity_search may return inside a pipeline run
PipelineResponses == {<<>>, <<Match(90, 0)>>, <<Match(70, 1)>>}

\* the weak_topics and max_chunks find_relevant_content is called with
FindTopicLists == {<<>>, <<"cell">>, <<"cell_gene", "cell">>, <<"general_content">>}
FindMaxChunks == {-1, 1, 15}

\* what the generative model may return: "" or some text
GeneratedTexts == {<<>>, <<[section |-> "generated text"]>>}

QCell == Question(TextCell, "multiple_choice", CanonGene, 3)
QGene == Question(TextGene, "short_answer", CanonHeatWave, 2)

\* the quizzes a pipeline run is given
PipelineQuizzes == {<<>>, <<QCell>>, <<QCell, QGene>>}

\* what similarity_search may return while a router request is served: nothing,
\* or one chunk that is only loosely related to any query
RouterResponses == {<<>>, <<Match(50, 0)>>}

(***************************************************************************)
(* Bounds                                                                  *)
(***************************************************************************)
\* longest quiz analysed with free questions and answers
MaxQuestions == 3
\* longest quiz of the score table (alternating questions, right or wrong answers)
MaxQuizLen == 10
\* most items the retriever lets find_relevant_content collect in one call
MaxCandidates == 2
\* most requests the router is sent
MaxRequests == 2
\* last second of the server's clock
MaxClock == 1

(***************************************************************************)
(* State machine: the service methods                                      *)
(***************************************************************************)
Document == [id |-> "pdf1", original_filename |-> "bio.pdf", user_id |-> "alice"]

\* the empty dict / empty collection
Empty == [k \in {} |-> k]

\* what a handler has answered while it is still running
Pending == [kind |-> "pending"]

\* no value yet: the call has not come back
NoResult == [kind |-> "none"]

\* the call gave back value
Returned(value) == [kind |-> "returned", value |-> value]

\* the call let exception e escape
Raised(e) == [kind |-> "raised", error |-> e]

\* no method is called on its own, the EmbeddingService is as constructed
\* (embeddings.py lines 9-15) and no concurrent run has started
ComponentsIdle ==
    /\ args = <<>>
    /\ outcome = NoResult
    /\ _pinecone_initialized = FALSE
    /\ index = None
    /\ init_attempts = 0
    /\ query_results = <<>>
    /\ runs = <<>>

\* everything but the call's arguments, before the call starts
Idle ==
    /\ pdf_document = Document
    /\ analysis = None
    /\ ti = 1
    /\ qi = 1
    /\ relevant_content = <<>>
    /\ calls = <<>>
    /\ found = None
    /\ model_call = None
    /\ notes = None
    /\ raised = FALSE
    /\ now = 0
    /\ general_results = <<>>
    /\ search_errors = "none"
    /\ stages = <<>>
    /\ rpc = None
    /\ request = None
    /\ stored_notes = Empty
    /\ test_storage = Empty
    /\ response = Pending
    /\ served = 0
    /\ model_attempts = 0
    /\ ComponentsIdle

\* analyze_quiz_performance(attempt, questions) on any quiz of at most
\* MaxQuestions bank questions, every question answered or not
InitAnalyze ==
    /\ op = "analyze_quiz_performance"
    /\ pc = "analyze"
    /\ \E n \in 0..MaxQuestions : \E f \in [1..n -> QuestionBank] : questions = QuizOf(f)
    /\ \E answered \in SUBSET QuestionIds(questions) :
          answers \in [answered -> SubmittedAnswers]
    /\ weak_topics = <<>>
    /\ max_chunks = 15
    /\ Idle

\* the quiz of the score table: n questions, difficulty 3 and 2 alternating
ScoreQuiz(n) ==
    QuizOf([i \in 1..n |-> IF i % 2 = 1 THEN QMultipleChoice ELSE QShortAnswer])

\* analyze_quiz_performance on the score-table quizzes, each question answered
\* "Heat" (right for the short answer, wrong for the multiple choice) or
\* " GENE" (the reverse)
InitScore ==
    /\ op = "analyze_quiz_performance"
    /\ pc = "analyze"
    /\ \E n \in 0..MaxQuizLen : questions = ScoreQuiz(n)
    /\ answers \in [QuestionIds(questions) -> {AnsGene, AnsHeat}]
    /\ weak_topics = <<>>
    /\ max_chunks = 15
    /\ Idle

\* mutant: the general query is issued whatever the topic queries found
AfterTopics_Always(content) == "general"

\* where find_relevant_content is once the topics on hand are searched
AfterTopics(content) == IF content = <<>> THEN "general" ELSE "rank"

\* lines 14-69: the whole of analyze_quiz_performance (it awaits nothing); in
\* create_comprehensive_notes its weak_topics are handed to find_relevant_content
AnalyzeQuizPerformance ==
    /\ pc = "analyze"
    /\ analysis' = analyze_quiz_performance(answers, questions)
    /\ stages' = Append(stages, "analysis")
    /\ IF op = "analyze_quiz_performance"
       THEN pc' = "done" /\ weak_topics' = weak_topics
       ELSE /\ weak_topics' = analysis'.weak_topics
            /\ pc' = IF weak_topics' = <<>> THEN AfterTopics(<<>>) ELSE "search"
    /\ UNCHANGED <<op, questions, answers, pdf_document, max_chunks, ti, qi,
                   relevant_content, calls, found, model_call, model_attempts, notes, raised, now,
                   general_results, search_errors, routerVars,
                   componentVars>>

\* analyze_quiz_performance on a one-question quiz: any question type, canonical
\* answer and submitted answer (or none) of the evaluator's catalogue
InitEval ==
    /\ op = "analyze_quiz_performance"
    /\ pc = "analyze"
    /\ \E type \in QuestionTypes, canon \in EvalCanonicals, diff \in {2, 3} :
          questions = QuizOf(<<Question(TextCell, type, canon, diff)>>)
    /\ \E answered \in SUBSET QuestionIds(questions) :
          answers \in [answered -> EvalAnswers]
    /\ weak_topics = <<>>
    /\ max_chunks = 15
    /\ Idle

NextAnalyze == AnalyzeQuizPerformance

SpecEval == InitEval /\ [][NextAnalyze]_vars

SpecAnalyze == InitAnalyze /\ [][NextAnalyze]_vars

SpecScore == InitScore /\ [][NextAnalyze]_vars

\* what the retriever may answer in this run
Responses ==
    CASE op = "find_relevant_content" -> FindResponses
      [] op = "create_comprehensive_notes" -> PipelineResponses
      [] OTHER -> RouterResponses

\* the call record of one similarity_search(query, pdf_id, top_k)
Call(query, top_k) == [query |-> query, pdf_id |-> pdf_document.id, top_k |-> top_k]

\* the loop variables after the query (ti, qi), and where the method goes next
NextQuery(content) ==
    /\ qi' = IF qi < NumQueries THEN qi + 1 ELSE 1
    /\ ti' = IF qi < NumQueries THEN ti ELSE ti + 1
    /\ pc' = IF qi = NumQueries /\ ti = Len(weak_topics)
             THEN AfterTopics(content)
             ELSE "search"

\* search_errors after one more call that returned
AfterReturn(errors) == IF errors = "all" THEN "some" ELSE errors

\* search_errors after one more call that raised, made after the calls made
AfterRaise(errors, made) ==
    IF made = <<>> \/ errors = "all" THEN "all" ELSE "some"

\* lines 160-178: one topic query answered by the retriever with results
TopicSearchReturns ==
    /\ pc = "search"
    /\ \E results \in Responses :
          LET query == TopicQuery(qi, weak_topics[ti])
              items == TopicItems(weak_topics[ti], query, results)
          IN  /\ Len(relevant_content) + Len(items) <= MaxCandidates
              /\ relevant_content' = relevant_content \o items
              /\ calls' = Append(calls, Call(query, TopicTopK))
              /\ NextQuery(relevant_content')
    /\ search_errors' = AfterReturn(search_errors)
    /\ UNCHANGED <<op, questions, answers, pdf_document, analysis, weak_topics,
                   max_chunks, found, model_call, model_attempts, notes, raised, now,
                   general_results, stages, routerVars,
                   componentVars>>

\* mutant: the error of one topic query ends the search for topics
TopicSearchRaises_Aborts ==
    /\ pc = "search"
    /\ calls' = Append(calls, Call(TopicQuery(qi, weak_topics[ti]), TopicTopK))
    /\ pc' = AfterTopics(relevant_content)
    /\ search_errors' = AfterRaise(search_errors, calls)
    /\ UNCHANGED <<op, questions, answers, pdf_document, analysis, weak_topics,
                   max_chunks, ti, qi, relevant_content, found, model_call, model_attempts, notes,
                   raised, now, general_results, stages, routerVars,
                   componentVars>>

\* lines 160-167, 180-181: one topic query on which the retriever raises; the
\* handler prints the error and the loop goes on
TopicSearchRaises ==
    /\ pc = "search"
    /\ calls' = Append(calls, Call(TopicQuery(qi, weak_topics[ti]), TopicTopK))
    /\ NextQuery(relevant_content)
    /\ search_errors' = AfterRaise(search_errors, calls)
    /\ UNCHANGED <<op, questions, answers, pdf_document, analysis, weak_topics,
                   max_chunks, relevant_content, found, model_call, model_attempts, notes, raised,
                   now, general_results, stages, routerVars,
                   componentVars>>

\* lines 184-202: the general query answered by the retriever with results
GeneralSearchReturns ==
    /\ pc = "general"
    /\ \E results \in Responses :
          /\ Len(results) <= MaxCandidates
          /\ general_results' = results
          /\ relevant_content' = relevant_content \o GeneralItems(results)
    /\ calls' = Append(calls, Call(GeneralQuery, GeneralTopK))
    /\ search_errors' = AfterReturn(search_errors)
    /\ pc' = "rank"
    /\ UNCHANGED <<op, questions, answers, pdf_document, analysis, weak_topics,
                   max_chunks, ti, qi, found, model_call, model_attempts, notes, raised, now,
                   stages, routerVars,
                   componentVars>>

\* lines 184-192, 203-204: the general query on which the retriever raises
GeneralSearchRaises ==
    /\ pc = "general"
    /\ calls' = Append(calls, Call(GeneralQuery, GeneralTopK))
    /\ search_errors' = AfterRaise(search_errors, calls)
    /\ pc' = "rank"
    /\ UNCHANGED <<op, questions, answers, pdf_document, analysis, weak_topics,
                   max_chunks, ti, qi, relevant_content, found, model_call, model_attempts, notes,
                   raised, now, general_results, stages, routerVars,
                   componentVars>>

\* lines 206-215: find_relevant_content returns the ranked content
ReturnContent ==
    /\ pc = "rank"
    /\ found' = RankContent(relevant_content, max_chunks)
    /\ stages' = Append(stages, "retrieval")
    /\ pc' = IF op = "find_relevant_content" THEN "done" ELSE "generate"
    /\ UNCHANGED <<op, questions, answers, pdf_document, analysis, weak_topics,
                   max_chunks, ti, qi, relevant_content, calls, model_call, model_attempts, notes,
                   raised, now, general_results, search_errors, routerVars,
                   componentVars>>

\* lines 340-366: the model returns a text and the notes are built from it
GenerateReturns ==
    /\ pc = "generate"
    /\ \E generated_notes \in GeneratedTexts :
          notes' = GeneratedNotes(analysis, found, pdf_document, generated_notes, now)
    /\ model_call' = "returned"
    /\ model_attempts' = model_attempts + 1
    /\ stages' = Append(stages, "synthesis")
    /\ pc' = "done"
    /\ UNCHANGED <<op, questions, answers, pdf_document, analysis, weak_topics,
                   max_chunks, ti, qi, relevant_content, calls, found, raised, now,
                   general_results, search_errors, routerVars,
                   componentVars>>

\* lines 340-343, 368-372: the model call raises and the fallback notes are built
GenerateRaises ==
    /\ pc = "generate"
    /\ notes' = _create_fallback_notes(analysis, found, pdf_document, now)
    /\ model_call' = "raised"
    /\ model_attempts' = model_attempts + 1
    /\ stages' = Append(stages, "synthesis")
    /\ pc' = "done"
    /\ UNCHANGED <<op, questions, answers, pdf_document, analysis, weak_topics,
                   max_chunks, ti, qi, relevant_content, calls, found, raised, now,
                   general_results, search_errors, routerVars,
                   componentVars>>

\* find_relevant_content(weak_topics, pdf_id, max_chunks) called on its own
InitFind ==
    /\ op = "find_relevant_content"
    /\ questions = <<>>
    /\ answers = <<>>
    /\ weak_topics \in FindTopicLists
    /\ max_chunks \in FindMaxChunks
    /\ pc = IF weak_topics = <<>> THEN AfterTopics(<<>>) ELSE "search"
    /\ Idle

\* create_comprehensive_notes(quiz_attempt, questions, pdf_document), which
\* asks find_relevant_content for max_chunks=15
Init ==
    /\ op = "create_comprehensive_notes"
    /\ pc = "analyze"
    /\ \E f \in PipelineQuizzes : questions = QuizOf(f)
    /\ answers \in [QuestionIds(questions) -> {AnsGene, AnsHeat}]
    /\ weak_topics = <<>>
    /\ max_chunks = 15
    /\ Idle

NextFind ==
    \/ TopicSearchReturns
    \/ TopicSearchRaises
    \/ GeneralSearchReturns
    \/ GeneralSearchRaises
    \/ ReturnContent

Next ==
    \/ AnalyzeQuizPerformance
    \/ TopicSearchReturns
    \/ TopicSearchRaises
    \/ GeneralSearchReturns
    \/ GeneralSearchRaises
    \/ ReturnContent
    \/ GenerateReturns
    \/ GenerateRaises

SpecFind == InitFind /\ [][NextFind]_vars

Spec == Init /\ [][Next]_vars

(***************************************************************************)
(* State machine: the notes router and the database                        *)
(***************************************************************************)
Users == {"alice", "bob"}

\* collection quiz_attempts: att1 is alice's attempt at quiz1, answered wrongly
QuizAttempts ==
    [att1 |-> [id |-> "att1", quiz_id |-> "quiz1", user_id |-> "alice",
               answers |-> [q \in {QuestionId(1)} |-> AnsHeat]],
     att2 |-> [id |-> "att2", quiz_id |-> "quiz1", user_id |-> "bob",
               answers |-> [q \in {QuestionId(1)} |-> AnsGene]],
     att3 |-> [id |-> "att3", quiz_id |-> "quiz0", user_id |-> "alice",
               answers |-> Empty],
     att4 |-> [id |-> "att4", quiz_id |-> "quiz2", user_id |-> "alice",
               answers |-> Empty],
     att5 |-> [id |-> "att5", quiz_id |-> "quiz3", user_id |-> "alice",
               answers |-> Empty]]

\* collection quizzes: quiz2 is about a document that is gone, quiz3 about bob's
Quizzes ==
    [quiz1 |-> [id |-> "quiz1", pdf_id |-> "pdf1", user_id |-> "alice",
                questions |-> QuizOf(<<QCell>>)],
     quiz2 |-> [id |-> "quiz2", pdf_id |-> "pdf0", user_id |-> "alice",
                questions |-> QuizOf(<<QCell>>)],
     quiz3 |-> [id |-> "quiz3", pdf_id |-> "pdf2", user_id |-> "alice",
                questions |-> QuizOf(<<QCell>>)]]

\* collection pdfs
PdfDocuments ==
    [pdf1 |-> Document,
     pdf2 |-> [id |-> "pdf2", original_filename |-> "chem.pdf", user_id |-> "bob"]]

\* the quiz_attempt_id path parameters a client may send ("att0" does not exist)
RequestedAttempts == DOMAIN QuizAttempts \cup {"att0"}

\* a notes_id path parameter that names no stored notes
MissingNotesId == <<"notes", "pdf0", 0>>

\* raise Exception(message) of utils/database.py
Exception(message) == [type |-> "Exception", message |-> message]

\* HTTPException(status_code=..., detail=...)
HTTPException(status_code, detail) ==
    [type |-> "HTTPException", status_code |-> status_code, detail |-> detail]

\* the answer of a handler whose body raised e: except Exception as e:
\* raise HTTPException(status_code=500, detail=f"{prefix}{str(e)}")
ErrorResponse(prefix, e) ==
    [kind |-> "HTTPException", status_code |-> 500,
     detail |-> [prefix |-> prefix, error |-> e]]

\* the prefix of the detail for the endpoint that answers
FailurePrefix(endpoint) ==
    IF endpoint = "regenerate_study_notes" THEN "Failed to regenerate notes: "
    ELSE IF endpoint = "get_study_notes" THEN ""
    ELSE "Failed to generate notes: "

\* None of an Optional[str] field
NoValue == [value |-> None]

\* StudyNotes(id=notes_data["id"], ...) of generate_study_notes
StudyNotes(notes_data, document, quiz_attempt_id, user_id, instant) ==
    [id |-> notes_data.id,
     pdf_id |-> document.id,
     quiz_attempt_id |-> quiz_attempt_id,
     user_id |-> user_id,
     pdf_title |-> notes_data.pdf_title,
     generated_at |-> notes_data.generated_at,
     performance_summary |-> notes_data.performance_summary,
     study_notes |-> notes_data.study_notes,
     topics_covered |-> notes_data.topics_covered,
     relevant_content_sources |-> notes_data.relevant_content_sources,
     study_priority |-> notes_data.study_priority,
     estimated_study_time |-> notes_data.estimated_study_time,
     next_review_date |-> IF "next_review_date" \in DOMAIN notes_data
                          THEN notes_data.next_review_date
                          ELSE NoValue,
     created_at |-> instant,
     updated_at |-> instant]

\* generate_study_recommendations: the level-based block and the topics named
generate_study_recommendations(notes_data) ==
    LET summary == notes_data.performance_summary
    IN  [level |-> IF "level" \in DOMAIN summary THEN summary.level ELSE "satisfactory",
         attention |-> Slice(summary.weak_topics, 3)]

\* NotesResponse(notes=..., generation_stats=..., recommendations=...)
NotesResponse(study_notes, notes_data) ==
    [kind |-> "NotesResponse",
     notes |-> study_notes,
     generation_stats |->
         [topics_analyzed |-> Len(notes_data.topics_covered),
          content_sources_used |-> notes_data.relevant_content_sources,
          performance_score |-> notes_data.performance_summary.score,
          weak_areas_identified |-> Len(notes_data.performance_summary.weak_topics),
          generation_time |-> "completed",
          ai_provider |-> "gemini"],
     recommendations |-> generate_study_recommendations(notes_data)]

\* doc_ref.set(data) / dict[key] = data
Put(collection, key, data) ==
    [k \in DOMAIN collection \cup {key} |-> IF k = key THEN data ELSE collection[k]]

\* the parameters generate_study_notes declares
GenerateStudyNotesParameters == {"quiz_attempt_id", "user_id"}

\* the keyword arguments regenerate_study_notes calls it with
RegenerateKeywords == {"quiz_attempt_id", "request", "user_id"}

\* the handler raises e inside its try block: the client gets the 500 answer
Fail(e) ==
    /\ response' = ErrorResponse(FailurePrefix(request.endpoint), e)
    /\ rpc' = "idle"

\* the locals of the service, as a new request finds them
ResetService ==
    /\ pc' = "wait"
    /\ questions' = <<>>
    /\ answers' = Empty
    /\ pdf_document' = None
    /\ analysis' = None
    /\ weak_topics' = <<>>
    /\ max_chunks' = 15
    /\ ti' = 1
    /\ qi' = 1
    /\ relevant_content' = <<>>
    /\ calls' = <<>>
    /\ found' = None
    /\ model_call' = None
    /\ model_attempts' = 0
    /\ notes' = None
    /\ raised' = FALSE
    /\ general_results' = <<>>
    /\ search_errors' = "none"
    /\ stages' = <<>>

\* a request reaches a handler; notes_before remembers the collection it found
Arrive(endpoint, user_id, quiz_attempt_id, notes_id) ==
    /\ rpc = "idle"
    /\ served < MaxRequests
    /\ served' = served + 1
    /\ op' = endpoint
    /\ request' = [endpoint |-> endpoint, user_id |-> user_id,
                   quiz_attempt_id |-> quiz_attempt_id, notes_id |-> notes_id,
                   notes_before |-> stored_notes]
    /\ response' = Pending
    /\ ResetService
    /\ UNCHANGED <<now, stored_notes, test_storage,
                   componentVars>>

\* POST /generate/{quiz_attempt_id}
GenerateArrives ==
    /\ \E user_id \in Users, quiz_attempt_id \in RequestedAttempts :
          Arrive("generate_study_notes", user_id, quiz_attempt_id, MissingNotesId)
    /\ rpc' = "get_quiz_attempt"

\* POST /{notes_id}/regenerate
RegenerateArrives ==
    /\ \E user_id \in Users, notes_id \in DOMAIN stored_notes \cup {MissingNotesId} :
          Arrive("regenerate_study_notes", user_id, None, notes_id)
    /\ rpc' = "get_user_notes"

\* routers/notes.py lines 29-33
GetQuizAttempt ==
    /\ rpc = "get_quiz_attempt"
    /\ LET id == request.quiz_attempt_id
       IN  IF id \notin DOMAIN QuizAttempts
           THEN Fail(Exception("Quiz attempt not found")) /\ UNCHANGED answers
           ELSE IF QuizAttempts[id].user_id # request.user_id
           THEN Fail(HTTPException(403, "Access denied")) /\ UNCHANGED answers
           ELSE /\ answers' = QuizAttempts[id].answers
                /\ rpc' = "get_quiz"
                /\ UNCHANGED response
    /\ UNCHANGED <<op, pc, questions, pdf_document, analysis, weak_topics, max_chunks,
                   ti, qi, relevant_content, calls, found, model_call, model_attempts, notes, raised,
                   now, general_results, search_errors, stages, request, stored_notes,
                   test_storage, served,
                   componentVars>>

\* routers/notes.py line 36
GetQuiz ==
    /\ rpc = "get_quiz"
    /\ LET id == QuizAttempts[request.quiz_attempt_id].quiz_id
       IN  IF id \notin DOMAIN Quizzes
           THEN Fail(Exception("Quiz not found")) /\ UNCHANGED questions
           ELSE /\ questions' = Quizzes[id].questions
                /\ rpc' = "get_pdf_document"
                /\ UNCHANGED response
    /\ UNCHANGED <<op, pc, answers, pdf_document, analysis, weak_topics, max_chunks,
                   ti, qi, relevant_content, calls, found, model_call, model_attempts, notes, raised,
                   now, general_results, search_errors, stages, request, stored_notes,
                   test_storage, served,
                   componentVars>>

\* mutant: the owner of the document is not checked
GetPdfDocument_NoOwnerCheck ==
    /\ rpc = "get_pdf_document"
    /\ LET id == Quizzes[QuizAttempts[request.quiz_attempt_id].quiz_id].pdf_id
       IN  IF id \notin DOMAIN PdfDocuments
           THEN Fail(Exception("PDF not found")) /\ UNCHANGED <<pdf_document, pc>>
           ELSE /\ pdf_document' = PdfDocuments[id]
                /\ rpc' = "create_comprehensive_notes"
                /\ pc' = "analyze"
                /\ UNCHANGED response
    /\ UNCHANGED <<op, questions, answers, analysis, weak_topics, max_chunks,
                   ti, qi, relevant_content, calls, found, model_call, model_attempts, notes, raised,
                   now, general_results, search_errors, stages, request, stored_notes,
                   test_storage, served,
                   componentVars>>

\* routers/notes.py lines 39-46: the document is read and checked, and
\* create_comprehensive_notes is entered
GetPdfDocument ==
    /\ rpc = "get_pdf_document"
    /\ LET id == Quizzes[QuizAttempts[request.quiz_attempt_id].quiz_id].pdf_id
       IN  IF id \notin DOMAIN PdfDocuments
           THEN Fail(Exception("PDF not found")) /\ UNCHANGED <<pdf_document, pc>>
           ELSE IF PdfDocuments[id].user_id # request.user_id
           THEN Fail(HTTPException(403, "Access denied")) /\ UNCHANGED <<pdf_document, pc>>
           ELSE /\ pdf_document' = PdfDocuments[id]
                /\ rpc' = "create_comprehensive_notes"
                /\ pc' = "analyze"
                /\ UNCHANGED response
    /\ UNCHANGED <<op, questions, answers, analysis, weak_topics, max_chunks,
                   ti, qi, relevant_content, calls, found, model_call, model_attempts, notes, raised,
                   now, general_results, search_errors, stages, request, stored_notes,
                   test_storage, served,
                   componentVars>>

\* datetime.isoformat() of the datetime d seconds into 1970 (d < 60)
isoformat(d) ==
    <<"1","9","7","0","-","0","1","-","0","1","T","0","0",":","0","0",":">>
        \o <<Digits[(d \div 10) + 1], Digits[(d % 10) + 1]>>

\* int(c) for a digit character c
DigitValue(c) == CHOOSE v \in 0..9 : Digits[v + 1] = c

\* datetime.fromisoformat(s), in seconds into 1970
fromisoformat(s) == 10 * DigitValue(s[18]) + DigitValue(s[19])

\* mutant: created_at is given the string of generated_at
NotesDocument_Copied(study_notes) ==
    [study_notes EXCEPT !.generated_at = isoformat(@),
                        !.created_at = isoformat(study_notes.generated_at),
                        !.updated_at = isoformat(@)]

\* utils/database.py lines 324-332: notes.dict() with the three datetimes as
\* ISO strings, the document doc_ref.set is given
NotesDocument(study_notes) ==
    [study_notes EXCEPT !.generated_at = isoformat(@),
                        !.created_at = isoformat(@),
                        !.updated_at = isoformat(@)]

\* utils/database.py lines 356-370: doc.to_dict() with the three ISO strings as
\* datetimes again, as StudyNotes(**notes_data)
StudyNotesFrom(notes_data) ==
    [notes_data EXCEPT !.generated_at = fromisoformat(@),
                       !.created_at = fromisoformat(@),
                       !.updated_at = fromisoformat(@)]

\* the study_notes object the handler builds from the returned notes_data
BuiltStudyNotes ==
    StudyNotes(notes, pdf_document, request.quiz_attempt_id, request.user_id, now)

\* mutant: notes are also saved as soon as the content is retrieved, before the
\* synthesis
SaveUserNotesReturns_Early ==
    /\ rpc = "create_comprehensive_notes"
    /\ \/ /\ pc = "generate"
          /\ stages[Len(stages)] = "retrieval"
          /\ LET draft == StudyNotes(_create_fallback_notes(analysis, found, pdf_document, now),
                                     pdf_document, request.quiz_attempt_id,
                                     request.user_id, now)
             IN  stored_notes' = Put(stored_notes, draft.id, NotesDocument(draft))
          /\ UNCHANGED <<response, rpc>>
       \/ /\ pc = "done"
          /\ stored_notes' = Put(stored_notes, BuiltStudyNotes.id, NotesDocument(BuiltStudyNotes))
          /\ response' = NotesResponse(BuiltStudyNotes, notes)
          /\ rpc' = "idle"
    /\ stages' = Append(stages, "save")
    /\ UNCHANGED <<op, pc, questions, answers, pdf_document, analysis, weak_topics,
                   max_chunks, ti, qi, relevant_content, calls, found, model_call, model_attempts,
                   notes, raised, now, general_results, search_errors, request,
                   test_storage, served,
                   componentVars>>

\* routers/notes.py lines 52-91 with save_user_notes storing the document
SaveUserNotesReturns ==
    /\ rpc = "create_comprehensive_notes"
    /\ pc = "done"
    /\ stored_notes' = Put(stored_notes, BuiltStudyNotes.id, NotesDocument(BuiltStudyNotes))
    /\ stages' = Append(stages, "save")
    /\ response' = NotesResponse(BuiltStudyNotes, notes)
    /\ rpc' = "idle"
    /\ UNCHANGED <<op, pc, questions, answers, pdf_document, analysis, weak_topics,
                   max_chunks, ti, qi, relevant_content, calls, found, model_call, model_attempts,
                   notes, raised, now, general_results, search_errors, request,
                   test_storage, served,
                   componentVars>>

\* mutant: save_user_notes keeps its copy in test_storage and does not raise again
SaveUserNotesRaises_Swallowed ==
    /\ rpc = "create_comprehensive_notes"
    /\ pc = "done"
    /\ test_storage' = Put(test_storage, BuiltStudyNotes.id, BuiltStudyNotes)
    /\ stages' = Append(stages, "save_failed")
    /\ response' = NotesResponse(BuiltStudyNotes, notes)
    /\ rpc' = "idle"
    /\ UNCHANGED <<op, pc, questions, answers, pdf_document, analysis, weak_topics,
                   max_chunks, ti, qi, relevant_content, calls, found, model_call, model_attempts,
                   notes, raised, now, general_results, search_errors, request,
                   stored_notes, served,
                   componentVars>>

\* routers/notes.py lines 52-72, 93-94 with save_user_notes failing: it keeps a
\* copy in test_storage and raises again (utils/database.py lines 340-346)
SaveUserNotesRaises ==
    /\ rpc = "create_comprehensive_notes"
    /\ pc = "done"
    /\ test_storage' = Put(test_storage, BuiltStudyNotes.id, BuiltStudyNotes)
    /\ stages' = Append(stages, "save_failed")
    /\ Fail(Exception("Firestore"))
    /\ UNCHANGED <<op, pc, questions, answers, pdf_document, analysis, weak_topics,
                   max_chunks, ti, qi, relevant_content, calls, found, model_call, model_attempts,
                   notes, raised, now, general_results, search_errors, request,
                   stored_notes, served,
                   componentVars>>

\* routers/notes.py lines 184-199: the stored notes are read and checked, and
\* generate_study_notes is called with the keywords of lines 193-195
RegenerateStudyNotes ==
    /\ rpc = "get_user_notes"
    /\ request.endpoint = "regenerate_study_notes"
    /\ LET id == request.notes_id
       IN  IF id \notin DOMAIN stored_notes
           THEN Fail(HTTPException(404, "Notes not found")) /\ UNCHANGED request
           ELSE IF stored_notes[id].user_id # request.user_id
           THEN Fail(HTTPException(404, "Notes not found")) /\ UNCHANGED request
           ELSE IF ~(RegenerateKeywords \subseteq GenerateStudyNotesParameters)
           THEN Fail([type |-> "TypeError",
                      message |-> "unexpected keyword argument",
                      keywords |-> RegenerateKeywords \ GenerateStudyNotesParameters])
                /\ UNCHANGED request
           ELSE /\ request' = [request EXCEPT
                                  !.quiz_attempt_id = stored_notes[id].quiz_attempt_id]
                /\ rpc' = "get_quiz_attempt"
                /\ UNCHANGED response
    /\ UNCHANGED <<op, pc, questions, answers, pdf_document, analysis, weak_topics,
                   max_chunks, ti, qi, relevant_content, calls, found, model_call, model_attempts,
                   notes, raised, now, general_results, search_errors, stages,
                   stored_notes, test_storage, served,
                   componentVars>>

\* GET /{notes_id}
GetStudyNotesArrives ==
    /\ \E user_id \in Users, notes_id \in DOMAIN stored_notes \cup {MissingNotesId} :
          Arrive("get_study_notes", user_id, None, notes_id)
    /\ rpc' = "get_user_notes"

\* routers/notes.py lines 103-116 once get_user_notes has returned found (the
\* StudyNotes in a one-element tuple, or the empty tuple for None)
GetStudyNotesChecks(found_notes) ==
    /\ rpc = "get_user_notes"
    /\ request.endpoint = "get_study_notes"
    /\ IF found_notes = <<>>
       THEN Fail(HTTPException(404, "Notes not found"))
       ELSE IF found_notes[1].user_id # request.user_id
       THEN Fail(HTTPException(403, "Access denied"))
       ELSE /\ response' = [kind |-> "StudyNotes", notes |-> found_notes[1]]
            /\ rpc' = "idle"
    /\ UNCHANGED <<op, pc, questions, answers, pdf_document, analysis, weak_topics,
                   max_chunks, ti, qi, relevant_content, calls, found, model_call,
                   model_attempts, notes, raised, now, general_results, search_errors,
                   stages, request, stored_notes, test_storage, served, componentVars>>

\* get_study_notes with get_user_notes answered by Firestore
GetStudyNotes ==
    GetStudyNotesChecks(IF request.notes_id \in DOMAIN stored_notes
                        THEN <<StudyNotesFrom(stored_notes[request.notes_id])>>
                        ELSE <<>>)

\* get_study_notes with get_user_notes answered from test_storage, Firestore
\* having raised
GetStudyNotesReadFails ==
    GetStudyNotesChecks(IF request.notes_id \in DOMAIN test_storage
                        THEN <<test_storage[request.notes_id]>>
                        ELSE <<>>)

\* the client goes away and the handler's task is cancelled at an await that
\* precedes the save
Abandon ==
    /\ rpc \in {"get_quiz_attempt", "get_quiz", "get_pdf_document", "get_user_notes",
                "create_comprehensive_notes"}
    /\ response' = [kind |-> "cancelled"]
    /\ rpc' = "idle"
    /\ UNCHANGED <<op, pc, questions, answers, pdf_document, analysis, weak_topics,
                   max_chunks, ti, qi, relevant_content, calls, found, model_call, model_attempts,
                   notes, raised, now, general_results, search_errors, stages, request,
                   stored_notes, test_storage, served,
                   componentVars>>

\* a second passes on the server's clock
Tick ==
    /\ now < MaxClock
    /\ now' = now + 1
    /\ UNCHANGED <<op, pc, questions, answers, pdf_document, analysis, weak_topics,
                   max_chunks, ti, qi, relevant_content, calls, found, model_call, model_attempts,
                   notes, raised, general_results, search_errors, stages, routerVars,
                   componentVars>>

\* the server is up, the study_notes collection is empty, no request has come
InitRouter ==
    /\ op = None
    /\ pc = "wait"
    /\ questions = <<>>
    /\ answers = Empty
    /\ pdf_document = None
    /\ analysis = None
    /\ weak_topics = <<>>
    /\ max_chunks = 15
    /\ ti = 1
    /\ qi = 1
    /\ relevant_content = <<>>
    /\ calls = <<>>
    /\ found = None
    /\ model_call = None
    /\ notes = None
    /\ raised = FALSE
    /\ now = 0
    /\ general_results = <<>>
    /\ search_errors = "none"
    /\ stages = <<>>
    /\ rpc = "idle"
    /\ request = [endpoint |-> None, user_id |-> None, quiz_attempt_id |-> None,
                  notes_id |-> MissingNotesId, notes_before |-> Empty]
    /\ stored_notes = Empty
    /\ test_storage = Empty
    /\ response = Pending
    /\ served = 0
    /\ model_attempts = 0
    /\ ComponentsIdle

NextRouter ==
    \/ GenerateArrives
    \/ RegenerateArrives
    \/ GetQuizAttempt
    \/ GetQuiz
    \/ GetPdfDocument
    \/ AnalyzeQuizPerformance
    \/ TopicSearchReturns
    \/ TopicSearchRaises
    \/ GeneralSearchReturns
    \/ GeneralSearchRaises
    \/ ReturnContent
    \/ GenerateReturns
    \/ GenerateRaises
    \/ SaveUserNotesReturns
    \/ SaveUserNotesRaises
    \/ RegenerateStudyNotes
    \/ GetStudyNotesArrives
    \/ GetStudyNotes
    \/ GetStudyNotesReadFails
    \/ Abandon
    \/ Tick

SpecRouter == InitRouter /\ [][NextRouter]_vars

(***************************************************************************)
(* Properties                                                              *)
(***************************************************************************)
Analysed == op = "analyze_quiz_performance" /\ pc = "done"

IdsOf(records) == {records[i].question_id : i \in 1..Len(records)}

\* the verdict of the evaluator on the answer the attempt holds for q
Judged(q) == _evaluate_answer_quality(q, AnswerGet(answers, q.id))

\* C3: every question is in exactly one of weak_areas, needs_review and
\* strong_areas: strong iff judged correct, weak iff incorrect with difficulty
\* >= 3, needs_review iff incorrect with difficulty < 3; the lists are pairwise
\* disjoint and their sizes add up to total_questions.
C3_Partition ==
    Analysed =>
        LET weak == IdsOf(analysis.weak_areas)
            review == IdsOf(analysis.needs_review)
            strong == IdsOf(analysis.strong_areas)
        IN  /\ \A i \in 1..Len(questions) :
                LET q == questions[i] IN
                /\ q.id \in strong <=> Judged(q)
                /\ q.id \in weak <=> (~Judged(q) /\ q.difficulty >= 3)
                /\ q.id \in review <=> (~Judged(q) /\ q.difficulty < 3)
            /\ weak \cap review = {} /\ weak \cap strong = {} /\ review \cap strong = {}
            /\ weak \cup review \cup strong = QuestionIds(questions)
            /\ analysis.total_questions = Len(questions)
            /\ Len(analysis.weak_areas) + Len(analysis.needs_review)
                 + Len(analysis.strong_areas) = analysis.total_questions

\* a quiz with a weak, a needs-review and a strong question has been analysed
C3_Witness ==
    /\ Analysed
    /\ analysis.weak_areas # <<>>
    /\ analysis.needs_review # <<>>
    /\ analysis.strong_areas # <<>>

\* a <= b for fractions
RatLE(a, b) == a.num * b.den <= b.num * a.den

\* C4: score_percentage is 100 * |strong_areas| / total_questions, and 0 for an
\* empty quiz; correct_answers is |strong_areas|; the score lies in [0, 100] and,
\* for the quiz's total, never decreases when the number of correct answers grows.
C4_Score ==
    Analysed =>
        LET total == analysis.total_questions
            score == analysis.score_percentage
        IN  /\ analysis.correct_answers = Len(analysis.strong_areas)
            /\ total = 0 => score.num = 0
            /\ total > 0 => score.num * total = 100 * Len(analysis.strong_areas) * score.den
            /\ score.den > 0 /\ 0 <= score.num /\ score.num <= 100 * score.den
            /\ \A c \in 1..total :
                  RatLE(ScorePercentage(c - 1, total), ScorePercentage(c, total))

\* a quiz of five questions with two correct answers (40%) has been analysed
C4_Witness ==
    /\ Analysed
    /\ analysis.total_questions = 5
    /\ analysis.correct_answers = 2
    /\ analysis.score_percentage = [num |-> 40, den |-> 1]

\* every record of an analysis
AllRecords == analysis.weak_areas \o analysis.needs_review \o analysis.strong_areas

\* the words of an answer, case ignored
WordsOf(answer) == split(lower(answer))

\* the verdict C5 describes for a question type, a canonical and a submitted answer
ExpectedVerdict(type, canonical, submitted) ==
    IF type \in {"multiple_choice", "true_false"}
    THEN strip(lower(submitted)) = strip(lower(canonical))
    ELSE LET shared == {w \in SeqToSet(WordsOf(canonical)) : w \in SeqToSet(WordsOf(submitted))}
         IN  2 * Cardinality(shared) >= Len(WordsOf(canonical))

\* C5: a multiple-choice or true/false answer is judged correct iff it equals the
\* canonical answer after trimming and lower-casing; a short answer iff the
\* distinct words it shares with the canonical answer are at least half of the
\* canonical answer's word count.
C5_Verdict ==
    Analysed =>
        \A i \in 1..Len(questions) :
            \E r \in SeqToSet(AllRecords) :
                /\ r.question_id = questions[i].id
                /\ r.user_answer = AnswerGet(answers, questions[i].id)
                /\ r.is_correct = ExpectedVerdict(questions[i].question_type,
                                                  questions[i].correct_answer,
                                                  r.user_answer)

\* a short answer with a repeated canonical word was judged wrong although it
\* shares one of the two distinct canonical words
C5_Witness ==
    /\ Analysed
    /\ Len(questions) = 1
    /\ questions[1].question_type = "short_answer"
    /\ questions[1].correct_answer = CanonHeatHeatWave
    /\ AnswerGet(answers, QuestionId(1)) = AnsHeat
    /\ analysis.needs_review \o analysis.weak_areas # <<>>

\* C6: a question with no entry in the attempt's answers is treated as
\* incorrect: it is in weak_areas or needs_review and never in strong_areas.
C6_UnansweredIncorrect ==
    Analysed =>
        \A i \in 1..Len(questions) :
            questions[i].id \notin DOMAIN answers =>
                /\ questions[i].id \notin IdsOf(analysis.strong_areas)
                /\ questions[i].id \in IdsOf(analysis.weak_areas \o analysis.needs_review)

\* occurrences of keyword k in the topic_keywords of the records
RECURSIVE Occurrences(_, _)
Occurrences(records, k) ==
    IF records = <<>> THEN 0
    ELSE Count(Head(records).topic_keywords, k) + Occurrences(Tail(records), k)

\* position of the first occurrence of k in the sequence s
FirstIndex(s, k) == CHOOSE i \in 1..Len(s) : s[i] = k /\ \A j \in 1..(i - 1) : s[j] # k

\* C7: weak_topics holds at most 10 distinct keywords, each a topic keyword of a
\* weak or needs-review record, by non-increasing occurrence count over those
\* records, equal counts in first-seen order.
C7_WeakTopics ==
    Analysed =>
        LET wt == analysis.weak_topics
            wrong == analysis.weak_areas \o analysis.needs_review
            seen == AllKeywords(wrong)
        IN  /\ Len(wt) <= 10
            /\ \A i, j \in 1..Len(wt) : i # j => wt[i] # wt[j]
            /\ \A i \in 1..Len(wt) :
                  \E r \in SeqToSet(wrong) : wt[i] \in SeqToSet(r.topic_keywords)
            /\ \A i, j \in 1..Len(wt) :
                  i < j =>
                    /\ Occurrences(wrong, wt[i]) >= Occurrences(wrong, wt[j])
                    /\ Occurrences(wrong, wt[i]) = Occurrences(wrong, wt[j])
                         => FirstIndex(seen, wt[i]) < FirstIndex(seen, wt[j])

\* ten weak topics were kept out of more, the first of them seen twice, and a
\* strong record has a keyword that is no weak topic
C7_Witness ==
    /\ Analysed
    /\ Len(analysis.weak_topics) = 10
    /\ Cardinality(SeqToSet(AllKeywords(analysis.weak_areas \o analysis.needs_review))) > 10
    /\ Occurrences(analysis.weak_areas \o analysis.needs_review, analysis.weak_topics[1]) = 2
    /\ \E r \in SeqToSet(analysis.strong_areas) :
          \E k \in SeqToSet(r.topic_keywords) : k \notin SeqToSet(analysis.weak_topics)

\* the row of the study table for c correct answers out of t
StudyRow(c, t) ==
    IF t > 0 /\ 100 * c >= 90 * t
    THEN <<"excellent", "low", "15-30 minutes review">>
    ELSE IF t > 0 /\ 100 * c >= 80 * t
    THEN <<"good", "low", "30-45 minutes focused study">>
    ELSE IF t > 0 /\ 100 * c >= 70 * t
    THEN <<"satisfactory", "medium", "1-2 hours comprehensive review">>
    ELSE IF t > 0 /\ 100 * c >= 60 * t
    THEN <<"needs_improvement", "high", "2-3 hours intensive study">>
    ELSE <<"requires_significant_study", "urgent", "3+ hours deep learning required">>

\* C8: the score fixes the row (level, priority, time band) of the study table,
\* whatever the number of weak areas.
C8_StudyRow ==
    Analysed =>
        <<analysis.performance_level,
          _determine_study_priority(analysis.performance_level),
          _estimate_study_time(analysis)>>
            = StudyRow(analysis.correct_answers, analysis.total_questions)

\* an analysis scoring exactly 80% with a weak area has been produced
C8_Witness ==
    /\ Analysed
    /\ analysis.score_percentage = [num |-> 80, den |-> 1]
    /\ analysis.performance_level = "good"
    /\ analysis.weak_areas # <<>>

NotesReturned == op = "create_comprehensive_notes" /\ pc = "done"

\* C1: create_comprehensive_notes returns, without raising, notes with a
\* non-empty study_notes, a study_priority and an estimated_study_time, whatever
\* the retriever and the generative model did.
C1_AlwaysUsableNotes ==
    NotesReturned =>
        /\ ~raised
        /\ {"study_notes", "study_priority", "estimated_study_time"} \subseteq DOMAIN notes
        /\ notes.study_notes # <<>>
        /\ notes.study_priority \in {"low", "medium", "high", "urgent"}
        /\ notes.estimated_study_time # ""

\* the topic blocks of a note body
TopicBlocks(body) == SelectSeq(body, LAMBDA sec : sec.section = "topic")

\* the topic labels of the content handed to the synthesizer
InputTopics == {found[i].topic : i \in 1..Len(found)}

\* C2: when the model call fails, the notes returned are the fallback notes:
\* their study_notes is non-empty, has an Executive Summary section and has
\* one topic block per distinct topic of the content items (none for no items).
C2_FallbackNotes ==
    (NotesReturned /\ model_call = "raised") =>
        LET body == notes.study_notes
            blocks == TopicBlocks(body)
        IN  /\ ~raised
            /\ body # <<>>
            /\ \E i \in 1..Len(body) : body[i].section = "Executive Summary"
            /\ \A t \in InputTopics :
                  Cardinality({i \in 1..Len(blocks) : blocks[i].topic = t}) = 1
            /\ Len(blocks) = Cardinality(InputTopics)
            /\ found = <<>> => blocks = <<>>

\* the fallback notes were returned for content of two topics
C2_Witness ==
    /\ NotesReturned
    /\ model_call = "raised"
    /\ Cardinality(InputTopics) = 2
    /\ Len(TopicBlocks(notes.study_notes)) = 2

\* the fallback notes were returned for content of the general query only
C2_WitnessGeneral ==
    /\ NotesReturned
    /\ model_call = "raised"
    /\ InputTopics = {"general_content"}

SamePair(a, b) == a.topic = b.topic /\ a.chunk_index = b.chunk_index

\* the candidate that should stand for the pair of item: among the collected
\* candidates of that pair, the first of those with the highest score
BestOfPair(item) ==
    LET cands == {j \in 1..Len(relevant_content) : SamePair(relevant_content[j], item)}
        best == {j \in cands : \A k \in cands :
                    relevant_content[k].relevance_score <= relevant_content[j].relevance_score}
    IN  relevant_content[CHOOSE j \in best : \A k \in best : j <= k]

\* C9: no two returned items share (topic, chunk_index), and the item returned
\* for a pair is the highest-scoring collected candidate of the pair, the first
\* seen of them when scores are equal.
C9_Deduplicated ==
    (op = "find_relevant_content" /\ pc = "done") =>
        /\ \A i, j \in 1..Len(found) : i # j => ~SamePair(found[i], found[j])
        /\ \A i \in 1..Len(found) : found[i] = BestOfPair(found[i])

\* two candidates of one pair were collected, the later with the higher score,
\* and the later one was returned
C9_Witness ==
    /\ op = "find_relevant_content"
    /\ pc = "done"
    /\ \E i, j \in 1..Len(relevant_content) :
          /\ i < j
          /\ SamePair(relevant_content[i], relevant_content[j])
          /\ relevant_content[i].relevance_score < relevant_content[j].relevance_score
          /\ \E k \in 1..Len(found) : found[k] = relevant_content[j]

\* two candidates of one pair with equal scores were collected by different
\* queries and the first was returned
C9_WitnessTie ==
    /\ op = "find_relevant_content"
    /\ pc = "done"
    /\ \E i, j \in 1..Len(relevant_content) :
          /\ i < j
          /\ SamePair(relevant_content[i], relevant_content[j])
          /\ relevant_content[i].relevance_score = relevant_content[j].relevance_score
          /\ relevant_content[i] # relevant_content[j]
          /\ \E k \in 1..Len(found) : found[k] = relevant_content[i]

\* the deduplicated items: the best candidate of every collected pair
Deduplicated == {BestOfPair(relevant_content[j]) : j \in 1..Len(relevant_content)}

SortedByScore(items) ==
    \A i, j \in 1..Len(items) :
        i < j => items[i].relevance_score >= items[j].relevance_score

\* no deduplicated item that was left out scores higher than a returned item
TopOfRanking(items) ==
    \A x \in Deduplicated \ SeqToSet(items) :
        \A i \in 1..Len(items) : x.relevance_score <= items[i].relevance_score

\* C10 as stated: for every integer max_chunks the returned list is sorted by
\* non-increasing score, has at most max_chunks items and is the top of the
\* ranking.
C10_AsStated ==
    (op = "find_relevant_content" /\ pc = "done") =>
        /\ SortedByScore(found)
        /\ Len(found) <= max_chunks
        /\ TopOfRanking(found)

\* C10 amended: the returned list is sorted by non-increasing score and is the
\* top of the ranking for every integer max_chunks; it has at most max_chunks
\* items for every max_chunks >= 0, and for a negative max_chunks it holds the
\* deduplicated items but the last -max_chunks of the ranking.
C10_RankedAndCut ==
    (op = "find_relevant_content" /\ pc = "done") =>
        /\ SortedByScore(found)
        /\ TopOfRanking(found)
        /\ SeqToSet(found) \subseteq Deduplicated
        /\ max_chunks >= 0 => Len(found) <= max_chunks
        /\ max_chunks >= 0 =>
              (Len(found) = max_chunks \/ Len(found) = Cardinality(Deduplicated))
        /\ max_chunks < 0 =>
              (Len(found) = Cardinality(Deduplicated) + max_chunks \/ found = <<>>)

\* two deduplicated items of different scores were collected, the lower first,
\* and with max_chunks = 1 only the higher was returned
C10_Witness ==
    /\ op = "find_relevant_content"
    /\ pc = "done"
    /\ max_chunks = 1
    /\ Cardinality(Deduplicated) = 2
    /\ Len(found) = 1
    /\ \E x \in Deduplicated : x.relevance_score < found[1].relevance_score
    /\ relevant_content[1].relevance_score < found[1].relevance_score

(***************************************************************************)
(* find_relevant_content: the queries it issues                            *)
(***************************************************************************)
Searching == op = "find_relevant_content"

Searched == op = "find_relevant_content" /\ pc = "done"

\* the items that a topic query produced, of a list of content items
FromTopicQuery(items) == SelectSeq(items, LAMBDA item : item.query # "general_search")

\* the items that the fallback query produced
FromFallback(items) == SelectSeq(items, LAMBDA item : item.query = "general_search")

\* the calls made so far are, topic after topic, the 8 queries about the topic,
\* each for 5 matches of the given document
BatteryIssued(made) ==
    \A t \in 1..Len(weak_topics), k \in 1..8 :
        LET i == 8 * (t - 1) + k
        IN  i <= made =>
                calls[i] = [query |-> TopicQuery(k, weak_topics[t]),
                            pdf_id |-> pdf_document.id,
                            top_k |-> 5]

FallbackCall ==
    [query |-> "main concepts key information important topics",
     pdf_id |-> pdf_document.id,
     top_k |-> 10]

\* the positions in calls of a query for general content
FallbackCalls == {i \in 1..Len(calls) : calls[i].query = FallbackCall.query}

\* C12: the fallback query is issued exactly when the topic queries kept no item,
\* once, for 10 matches of the same document and after all topic queries; every
\* match it returns is tagged "general_content" whatever its score; if it returns
\* a match and max_chunks >= 1 the output is non-empty; fallback items and
\* topic-query items never appear together.
C12_FallbackQuery ==
    Searching =>
        LET n == 8 * Len(weak_topics)
            issued == FallbackCalls # {}
        IN  /\ FallbackCalls \subseteq {n + 1}
            /\ Len(calls) <= n + 1
            /\ issued => calls[n + 1] = FallbackCall
            /\ issued => FromTopicQuery(relevant_content) = <<>>
            /\ pc \in {"rank", "done"} =>
                  (issued <=> FromTopicQuery(relevant_content) = <<>>)
            /\ pc \in {"search", "general"} => ~issued
            /\ issued =>
                  /\ Len(relevant_content) = Len(general_results)
                  /\ \A i \in 1..Len(general_results) :
                        relevant_content[i] =
                            [topic |-> "general_content",
                             query |-> "general_search",
                             content |-> general_results[i].text,
                             relevance_score |-> general_results[i].score,
                             chunk_index |-> general_results[i].chunk_index,
                             source |-> "pdf_content"]
            /\ ~issued => general_results = <<>>
            /\ (pc = "done" /\ general_results # <<>> /\ max_chunks >= 1) => found # <<>>
            /\ FromFallback(relevant_content) = <<>>
                  \/ FromTopicQuery(relevant_content) = <<>>
            /\ pc = "done" =>
                  (FromFallback(found) = <<>> \/ FromTopicQuery(found) = <<>>)

\* two topics were searched in vain, the fallback query came 17th and its match
\* scoring 0.6 was returned as general content
C12_Witness ==
    /\ Searched
    /\ Len(weak_topics) = 2
    /\ Len(calls) = 17
    /\ FallbackCalls = {17}
    /\ max_chunks >= 1
    /\ \E i \in 1..Len(found) :
          /\ found[i].topic = "general_content"
          /\ found[i].relevance_score = 60

\* C13: a retriever failure does not abort find_relevant_content: nothing is
\* raised, every query of the battery is still issued, the matches kept from the
\* queries that succeeded are returned (all of them when max_chunks allows), and
\* the result is empty if every call failed or returned nothing.
C13_ErrorsSkipped ==
    Searching =>
        LET n == 8 * Len(weak_topics)
        IN  /\ ~raised
            /\ pc \in {"search", "general", "rank", "done"}
            /\ pc = "search" => Len(calls) = 8 * (ti - 1) + (qi - 1)
            /\ pc \in {"general", "rank", "done"} => Len(calls) >= n
            /\ (pc \in {"rank", "done"} /\ relevant_content = <<>>) => Len(calls) = n + 1
            /\ search_errors = "all" => relevant_content = <<>>
            /\ pc = "done" =>
                  /\ \A i \in 1..Len(found) :
                        \E j \in 1..Len(relevant_content) : found[i] = relevant_content[j]
                  /\ max_chunks >= Len(relevant_content) =>
                        \A j \in 1..Len(relevant_content) :
                            \E i \in 1..Len(found) :
                                /\ found[i].topic = relevant_content[j].topic
                                /\ found[i].chunk_index = relevant_content[j].chunk_index
                                /\ found[i].relevance_score >=
                                       relevant_content[j].relevance_score
                  /\ (search_errors = "all" \/ relevant_content = <<>>) => found = <<>>

\* some of the 16 topic queries failed and the matches of the others were returned
C13_Witness ==
    /\ Searched
    /\ search_errors = "some"
    /\ Len(calls) = 16
    /\ Len(found) = 2

\* all 17 calls failed and the empty list was returned
C13_WitnessAllFailed ==
    /\ Searched
    /\ search_errors = "all"
    /\ Len(calls) = 17
    /\ found = <<>>

(***************************************************************************)
(* The router: generate_study_notes and regenerate_study_notes             *)
(***************************************************************************)
Generating == op = "generate_study_notes"

\* the order of the stages of a request that runs to its end
StageOrder == <<"analysis", "retrieval", "synthesis", "save">>

IsPrefix(s, t) == Len(s) <= Len(t) /\ \A i \in 1..Len(s) : s[i] = t[i]

\* the stages that have run so far
Ran(stage) == \E i \in 1..Len(stages) : stages[i] = stage

\* the id of the document the request's attempt is about
RequestedDocument == Quizzes[QuizAttempts[request.quiz_attempt_id].quiz_id].pdf_id

\* C14: the stages of a generation request run in the order analysis, retrieval,
\* synthesis, save: retrieval is called with the analysis's weak_topics, the
\* document's id and a limit of 15; the save comes after the synthesis has
\* returned and at most once; when the request is abandoned or fails before the
\* save, the stored notes are those the request found.
C14_StageOrder ==
    Generating =>
        /\ IsPrefix(stages, StageOrder)
              \/ stages = <<"analysis", "retrieval", "synthesis", "save_failed">>
        /\ calls # <<>> =>
              /\ Ran("analysis")
              /\ weak_topics = analysis.weak_topics
              /\ max_chunks = 15
              /\ \A i \in 1..Len(calls) :
                    /\ calls[i].pdf_id = RequestedDocument
                    /\ i <= 8 * Len(analysis.weak_topics) =>
                          calls[i].query =
                              TopicQuery(((i - 1) % 8) + 1,
                                         analysis.weak_topics[((i - 1) \div 8) + 1])
        /\ Ran("retrieval") =>
              /\ Len(calls) >= 8 * Len(analysis.weak_topics)
              /\ Len(found) <= 15
        /\ (model_call # None) <=> Ran("synthesis")
        /\ ~Ran("save") => stored_notes = request.notes_before
        /\ Ran("save") =>
              /\ DOMAIN stored_notes = DOMAIN request.notes_before \cup {notes.id}
              /\ stored_notes[notes.id].study_notes = notes.study_notes
              /\ stored_notes[notes.id].quiz_attempt_id = request.quiz_attempt_id
              /\ \A id \in DOMAIN request.notes_before \ {notes.id} :
                    stored_notes[id] = request.notes_before[id]
        /\ response.kind = "cancelled" => ~Ran("save")

\* a request went through the four stages, with 8 queries about its weak topic
\* and the fallback query, and was answered with the notes
C14_Witness ==
    /\ Generating
    /\ stages = StageOrder
    /\ analysis.weak_topics = <<"cell">>
    /\ Len(calls) = 9
    /\ response.kind = "NotesResponse"

\* the request was abandoned after the synthesis and nothing was stored
C14_WitnessAbandoned ==
    /\ Generating
    /\ stages = <<"analysis", "retrieval", "synthesis">>
    /\ response.kind = "cancelled"
    /\ stored_notes = Empty

\* the attempt is missing or another user's, or the quiz or the document is
\* missing, or the document is another user's
LookupFails ==
    LET a == request.quiz_attempt_id
    IN  \/ a \notin DOMAIN QuizAttempts
        \/ QuizAttempts[a].user_id # request.user_id
        \/ QuizAttempts[a].quiz_id \notin DOMAIN Quizzes
        \/ RequestedDocument \notin DOMAIN PdfDocuments
        \/ PdfDocuments[RequestedDocument].user_id # request.user_id

\* C15: when the attempt is missing or another user's, or the quiz or document is
\* missing, or the document is another user's, generate_study_notes fails with
\* no partial work: no analysis, no retrieval call, no model call, no save, and
\* the stored notes are unchanged.
C15_NoPartialWork ==
    (Generating /\ LookupFails) =>
        /\ stages = <<>>
        /\ calls = <<>>
        /\ model_call = None
        /\ pc = "wait"
        /\ stored_notes = request.notes_before
        /\ response.kind # "NotesResponse"
        /\ (rpc = "idle" /\ response.kind # "cancelled") =>
              (response.kind = "HTTPException" /\ response.status_code >= 400)

\* alice asked for notes on an attempt about bob's document, after notes of hers
\* had been stored, and was refused
C15_Witness ==
    /\ Generating
    /\ request.user_id = "alice"
    /\ request.quiz_attempt_id = "att5"
    /\ rpc = "idle"
    /\ response.kind = "HTTPException"
    /\ stored_notes # Empty

\* C16: when saving the artifact fails, generate_study_notes answers with a
\* failed operation; a NotesResponse is given only for notes that are stored.
C16_SaveFailureSurfaced ==
    Generating =>
        /\ response.kind = "NotesResponse" =>
              /\ Ran("save")
              /\ response.notes.id \in DOMAIN stored_notes
              /\ stored_notes[response.notes.id] = NotesDocument(response.notes)
        /\ Ran("save_failed") =>
              /\ response.kind = "HTTPException"
              /\ response.status_code = 500
              /\ stored_notes = request.notes_before

\* the save failed after the synthesis and the client got the 500 answer
C16_Witness ==
    /\ Generating
    /\ stages = <<"analysis", "retrieval", "synthesis", "save_failed">>
    /\ response.kind = "HTTPException"
    /\ rpc = "idle"

\* the notes named by the regenerate request were stored and belong to the caller
\* when the request came, and their attempt, quiz and document are there and the
\* caller's
Regenerable ==
    /\ op = "regenerate_study_notes"
    /\ request.notes_id \in DOMAIN request.notes_before
    /\ request.notes_before[request.notes_id].user_id = request.user_id
    /\ LET a == request.notes_before[request.notes_id].quiz_attempt_id
       IN  /\ a \in DOMAIN QuizAttempts
           /\ QuizAttempts[a].user_id = request.user_id
           /\ QuizAttempts[a].quiz_id \in DOMAIN Quizzes
           /\ Quizzes[QuizAttempts[a].quiz_id].pdf_id \in DOMAIN PdfDocuments
           /\ PdfDocuments[Quizzes[QuizAttempts[a].quiz_id].pdf_id].user_id
                 = request.user_id

\* C17: for stored notes of the caller whose attempt, quiz and document are still
\* there and the caller's, regenerate_study_notes does not fail: it runs the
\* pipeline on the notes' quiz_attempt_id and answers with newly stored notes.
C17_RegenerateSucceeds ==
    (Regenerable /\ rpc = "idle" /\ response.kind # "cancelled") =>
        /\ response.kind = "NotesResponse"
        /\ stages = StageOrder
        /\ response.notes.quiz_attempt_id
              = request.notes_before[request.notes_id].quiz_attempt_id
        /\ response.notes.id \in DOMAIN stored_notes

\* C18: the notes of every successful generation carry an identifier that no
\* notes stored before carry, so no generation overwrites stored notes.
C18_FreshIdentifier ==
    response.kind = "NotesResponse" =>
        /\ response.notes.id \notin DOMAIN request.notes_before
        /\ \A id \in DOMAIN request.notes_before :
              id \in DOMAIN stored_notes /\ stored_notes[id] = request.notes_before[id]

(***************************************************************************)
(* generate_personalized_notes: the two paths                              *)
(***************************************************************************)
\* what the other path would have returned for the same analysis, content,
\* document and instant
OtherPath ==
    IF model_call = "raised"
    THEN GeneratedNotes(analysis, found, pdf_document, <<>>, now)
    ELSE _create_fallback_notes(analysis, found, pdf_document, now)

\* C19: the notes of the AI path and of the fallback path have the same
\* top-level keys (next_review_date among them), the same performance_summary
\* keys (score, level, weak_topics, total_questions, correct_answers) and the
\* same values but for the study_notes text.
C19_SameShape ==
    NotesReturned =>
        /\ DOMAIN notes = DOMAIN OtherPath
        /\ "next_review_date" \in DOMAIN notes
        /\ DOMAIN notes.performance_summary =
              {"score", "level", "weak_topics", "total_questions", "correct_answers"}
        /\ \A key \in DOMAIN notes \ {"study_notes", "performance_summary"} :
              notes[key] = OtherPath[key]
        /\ \A key \in DOMAIN notes.performance_summary :
              notes.performance_summary[key] = OtherPath.performance_summary[key]

\* the content handed to the synthesizer came from the fallback query only
OnlyFallbackContent ==
    /\ found # <<>>
    /\ \A i \in 1..Len(found) : found[i].query = "general_search"

\* C20: topics_covered is the set of the topic labels of the content items given
\* to the synthesizer, without "general_content" when the content came from the
\* fallback query only, on both paths.
C20_TopicsCovered ==
    NotesReturned =>
        SeqToSet(notes.topics_covered) =
            IF OnlyFallbackContent
            THEN InputTopics \ {"general_content"}
            ELSE InputTopics

(***************************************************************************)
(* generate_personalized_notes: the attempts at the model call             *)
(***************************************************************************)
\* the attempts the retry policy of verify_firebase_token allows
\* (services/auth.py line 25: max_retries = 3)
max_retries == 3

\* C21: the model call is retried when it fails: it is made max_retries times at
\* most, and the fallback notes are built only after the last of these attempts
\* has failed.
C21_BoundedRetry ==
    /\ model_attempts <= max_retries
    /\ (NotesReturned /\ model_call = "raised") => model_attempts = max_retries

(***************************************************************************)
(* State machine: EmbeddingService.similarity_search                       *)
(***************************************************************************)
\* most calls of similarity_search in a behaviour
MaxSearches == 3

\* a match of index.query (include_metadata=True) on a vector stored by
\* store_embeddings
PineconeMatch(id, score, chunk_index) ==
    [id |-> id,
     score |-> score,
     metadata |-> [pdf_id |-> "pdf1",
                   chunk_index |-> chunk_index,
                   text |-> ChunkText(chunk_index),
                   full_text_hash |-> "md5"]]

\* a match on a vector some other writer stored without the text
ForeignMatch(id, score) == [id |-> id, score |-> score, metadata |-> [pdf_id |-> "pdf1"]]

\* what index.query may hold in results.matches
QueryResults ==
    {<<>>,
     <<PineconeMatch("pdf1_0_ab12cd34", 90, 0)>>,
     <<PineconeMatch("pdf1_1_ef56ab78", 70, 1), PineconeMatch("pdf1_0_ab12cd34", 50, 0)>>,
     <<PineconeMatch("pdf1_0_ab12cd34", 90, 0), ForeignMatch("x", 80)>>}

\* the (query, pdf_id, top_k) similarity_search is called with
SearchArguments ==
    {<<GeneralQuery, "pdf1", GeneralTopK>>, <<TopicQuery(1, "cell"), "pdf1", TopicTopK>>}

\* lines 134-142: the list built from results.matches; match.metadata["text"]
\* and match.metadata["chunk_index"] raise KeyError on a match without them
MatchRecords(matches) ==
    IF \A i \in 1..Len(matches) :
          {"text", "chunk_index"} \subseteq DOMAIN matches[i].metadata
    THEN Returned([i \in 1..Len(matches) |->
                      [id |-> matches[i].id,
                       score |-> matches[i].score,
                       text |-> matches[i].metadata.text,
                       chunk_index |-> matches[i].metadata.chunk_index]])
    ELSE Raised("KeyError")

\* mutant: the error of a match without text escapes similarity_search
Handled_Reraised(attempt) == attempt

\* lines 124, 143-145: try ... except Exception: return []
Handled(attempt) == IF attempt.kind = "raised" THEN Returned(<<>>) ELSE attempt

\* mutant: _init_pinecone connects again although a connection was made
AlreadyInitialized_Never(flag) == FALSE

\* lines 19-20: if self._pinecone_initialized: return
AlreadyInitialized(flag) == flag

\* lines 115-122: similarity_search is called; _init_pinecone has step as its
\* outcome (skipped, connected or failed) and leaves the index and the flag
\* given; without an index the call returns [] at once
SearchCalled(step, new_index, new_flag) ==
    /\ op = "similarity_search"
    /\ pc \in {"wait", "done"}
    /\ Len(calls) < MaxSearches
    /\ \E a \in SearchArguments :
          /\ args' = a
          /\ calls' = Append(calls, [query |-> a[1], pdf_id |-> a[2], top_k |-> a[3]])
    /\ index' = new_index
    /\ _pinecone_initialized' = new_flag
    /\ init_attempts' = IF step = "skipped" THEN init_attempts ELSE init_attempts + 1
    /\ stages' = <<step>>
    /\ query_results' = <<>>
    /\ IF new_index = None
       THEN outcome' = Returned(<<>>) /\ pc' = "done"
       ELSE outcome' = NoResult /\ pc' = "generate_embeddings"
    /\ UNCHANGED <<op, questions, answers, pdf_document, analysis, weak_topics,
                   max_chunks, ti, qi, relevant_content, found, model_call,
                   model_attempts, notes, raised, now, general_results, search_errors,
                   routerVars, runs>>

\* lines 19-20: Pinecone was initialized by an earlier call
InitPineconeSkipped ==
    /\ AlreadyInitialized(_pinecone_initialized)
    /\ SearchCalled("skipped", index, _pinecone_initialized)

\* lines 22-39: pinecone.init, list_indexes and Index succeed
InitPineconeSucceeds ==
    /\ ~AlreadyInitialized(_pinecone_initialized)
    /\ SearchCalled("connected", "Index", TRUE)

\* lines 22-37, 41-43: one of them raises; the warning is printed and the flag
\* and the index stay as they were
InitPineconeFails ==
    /\ ~AlreadyInitialized(_pinecone_initialized)
    /\ SearchCalled("failed", index, _pinecone_initialized)

\* what the rest of similarity_search leaves alone
SearchFrame ==
    UNCHANGED <<op, questions, answers, pdf_document, analysis, weak_topics, max_chunks,
                ti, qi, relevant_content, calls, found, model_call, model_attempts,
                notes, raised, now, general_results, search_errors, routerVars, args,
                _pinecone_initialized, index, init_attempts, runs>>

\* lines 125, 143-145: generate_embeddings raises
EmbeddingRaises ==
    /\ op = "similarity_search"
    /\ pc = "generate_embeddings"
    /\ stages' = Append(stages, "generate_embeddings raised")
    /\ outcome' = Handled(Raised("Exception"))
    /\ query_results' = <<>>
    /\ pc' = "done"
    /\ SearchFrame

\* lines 125-132, 143-145: the embedding is made and index.query raises
QueryRaises ==
    /\ op = "similarity_search"
    /\ pc = "generate_embeddings"
    /\ stages' = Append(stages, "index.query raised")
    /\ outcome' = Handled(Raised("Exception"))
    /\ query_results' = <<>>
    /\ pc' = "done"
    /\ SearchFrame

\* lines 125-142: the embedding is made, index.query answers and the list of
\* the matches is built
QueryReturns ==
    /\ op = "similarity_search"
    /\ pc = "generate_embeddings"
    /\ stages' = Append(stages, "index.query returned")
    /\ \E matches \in QueryResults :
          /\ query_results' = matches
          /\ outcome' = Handled(MatchRecords(matches))
    /\ pc' = "done"
    /\ SearchFrame

\* an EmbeddingService as constructed, before any call
InitSearch ==
    /\ op = "similarity_search"
    /\ pc = "wait"
    /\ questions = <<>>
    /\ answers = <<>>
    /\ weak_topics = <<>>
    /\ max_chunks = 15
    /\ Idle

NextSearch ==
    \/ InitPineconeSkipped
    \/ InitPineconeSucceeds
    \/ InitPineconeFails
    \/ EmbeddingRaises
    \/ QueryRaises
    \/ QueryReturns

SpecSearch == InitSearch /\ [][NextSearch]_vars

\* the call has come back
SearchDone == op = "similarity_search" /\ pc = "done"

\* the records of the matches the index answered with
RecordsOf(matches) ==
    [i \in 1..Len(matches) |->
        [score |-> matches[i].score,
         text |-> matches[i].metadata.text,
         chunk_index |-> matches[i].metadata.chunk_index]]

\* the record without its id
WithoutId(record) ==
    [score |-> record.score, text |-> record.text, chunk_index |-> record.chunk_index]

\* the index answered, and every match holds its text and chunk index
Answered ==
    /\ stages[Len(stages)] = "index.query returned"
    /\ \A i \in 1..Len(query_results) :
          {"text", "chunk_index"} \subseteq DOMAIN query_results[i].metadata

\* C27 (the result): similarity_search never raises; when the index answered it
\* returns one record of score, text and chunk_index per match, in order, and
\* otherwise (no index, an error of the embedding or of the query) it returns [].
C27_Result ==
    /\ outcome.kind # "raised"
    /\ SearchDone =>
          /\ outcome.kind = "returned"
          /\ IF Answered
             THEN /\ Len(outcome.value) = Len(query_results)
                  /\ \A i \in 1..Len(query_results) :
                        WithoutId(outcome.value[i]) = RecordsOf(query_results)[i]
             ELSE outcome.value = <<>>

\* C27 (the connection): a call that finds Pinecone not initialized tries to
\* connect, also after a failed try, and a call that finds it initialized does not.
C27_Connection ==
    (Len(calls') = Len(calls) + 1) =>
        init_attempts' = IF _pinecone_initialized THEN init_attempts ELSE init_attempts + 1

C27_WitnessForeign ==
    /\ SearchDone
    /\ stages[Len(stages)] = "index.query returned"
    /\ ~Answered
    /\ outcome = Returned(<<>>)

(***************************************************************************)
(* State machine: the helpers of the service, each called on its own       *)
(***************************************************************************)
\* most tokens of a question text
MaxTokens == 5

\* "What" (a stop word), "Cell", "gene" and "DNA" (a short token)
WordWhat == <<"W","h","a","t">>
WordCell == <<"C","e","l","l">>
WordGene == <<"g","e","n","e">>
WordDNA == <<"D","N","A">>

Vocabulary == {WordWhat, WordCell, WordGene, WordDNA}

\* " ".join(tokens)
RECURSIVE TextOf(_)
TextOf(tokens) ==
    IF tokens = <<>> THEN <<>>
    ELSE IF Len(tokens) = 1 THEN tokens[1]
    ELSE tokens[1] \o <<" ">> \o TextOf(Tail(tokens))

\* the question texts the keyword extractor is given
QuestionTexts ==
    {TextOf(tokens) : tokens \in UNION {[1..n -> Vocabulary] : n \in 0..MaxTokens}}

\* the levels _determine_performance_level gives, and one it does not
ReviewLevels ==
    {"excellent", "good", "satisfactory", "needs_improvement",
     "requires_significant_study", "unknown"}

\* one of the helpers is about to be called
InitDirect ==
    /\ \/ /\ op = "_extract_topic_keywords"
          /\ \E text \in QuestionTexts : args = <<text>>
          /\ now = 0
       \/ /\ op = "_suggest_review_date"
          /\ \E level \in ReviewLevels : args = <<level>>
          /\ now \in 0..MaxClock
    /\ pc = "call"
    /\ questions = <<>>
    /\ answers = <<>>
    /\ weak_topics = <<>>
    /\ max_chunks = 15
    /\ pdf_document = Document
    /\ analysis = None
    /\ ti = 1
    /\ qi = 1
    /\ relevant_content = <<>>
    /\ calls = <<>>
    /\ found = None
    /\ model_call = None
    /\ model_attempts = 0
    /\ notes = None
    /\ raised = FALSE
    /\ general_results = <<>>
    /\ search_errors = "none"
    /\ stages = <<>>
    /\ rpc = None
    /\ request = None
    /\ stored_notes = Empty
    /\ test_storage = Empty
    /\ response = Pending
    /\ served = 0
    /\ outcome = NoResult
    /\ _pinecone_initialized = FALSE
    /\ index = None
    /\ init_attempts = 0
    /\ query_results = <<>>
    /\ runs = <<>>

\* what a helper leaves alone: everything but its return value
DirectFrame ==
    UNCHANGED <<op, questions, answers, pdf_document, analysis, weak_topics, max_chunks,
                ti, qi, relevant_content, calls, found, model_call, model_attempts,
                notes, raised, now, general_results, search_errors, stages, routerVars,
                args, _pinecone_initialized, index, init_attempts, query_results, runs>>

\* lines 84-115: _extract_topic_keywords(question_text)
ExtractTopicKeywords ==
    /\ op = "_extract_topic_keywords"
    /\ pc = "call"
    /\ outcome' = Returned(_extract_topic_keywords(args[1]))
    /\ pc' = "done"
    /\ DirectFrame

\* lines 541-553: _suggest_review_date(performance_level)
SuggestReviewDate ==
    /\ op = "_suggest_review_date"
    /\ pc = "call"
    /\ outcome' = Returned(_suggest_review_date(args[1], now))
    /\ pc' = "done"
    /\ DirectFrame

NextDirect ==
    \/ ExtractTopicKeywords
    \/ SuggestReviewDate

SpecDirect == InitDirect /\ [][NextDirect]_vars

(***************************************************************************)
(* _extract_topic_keywords: what it returns                                *)
(***************************************************************************)
\* the keyword extractor has returned
KeywordsDone == op = "_extract_topic_keywords" /\ pc = "done"

\* the tokens of the question text given to the extractor, lower-cased
Tokens == findall_words(lower(args[1]))

\* the tokens that are longer than 3 characters and no stop words, in order
SurvivingOf(words) == SelectSeq(words, LAMBDA w : Len(w) > 3 /\ w \notin question_words)

\* entry is the token at position p joined to a token further on
BigramAt(words, entry, p) ==
    \E q \in (p + 1)..Len(words) : entry = words[p] \o "_" \o words[q]

\* the entries j..k of r are bigrams of tokens at increasing positions after last
RECURSIVE InOrder(_, _, _, _, _)
InOrder(words, r, j, k, last) ==
    IF j > k THEN TRUE
    ELSE LET at == {p \in (last + 1)..Len(words) : BigramAt(words, r[j], p)}
         IN  /\ at # {}
             /\ InOrder(words, r, j + 1, k, CHOOSE p \in at : \A o \in at : p <= o)

\* C24: at most 8 entries are returned; the bigrams come first, in the order of
\* their first tokens in the question, and the single words after them are the
\* first tokens, in order, that are lower case, longer than 3 characters and no
\* stop words.
C24_Keywords ==
    KeywordsDone =>
        LET r == outcome.value
            words == Tokens
            surviving == SurvivingOf(words)
        IN  /\ Len(r) <= 8
            /\ \E k \in 0..Len(r) :
                  /\ InOrder(words, r, 1, k, 0)
                  /\ \A j \in (k + 1)..Len(r) :
                        /\ j - k <= Len(surviving)
                        /\ r[j] = surviving[j - k]
                  /\ k < Len(r) => \A j \in 1..k : r[j] \notin SeqToSet(surviving)

\* a question of five tokens with upper-case letters, whose nine keywords are
\* cut to four bigrams and four single words
C24_Witness ==
    /\ KeywordsDone
    /\ Len(Tokens) = 5
    /\ Len(SurvivingOf(Tokens)) = 5
    /\ Len(outcome.value) = 8
    /\ outcome.value[4] = "gene_cell"
    /\ outcome.value[5] = "cell"

\* a question of which a stop word and a short token were discarded
C24_WitnessDiscarded ==
    /\ KeywordsDone
    /\ "what" \in SeqToSet(Tokens)
    /\ "dna" \in SeqToSet(Tokens)
    /\ outcome.value = <<"cell_gene", "cell", "gene">>

\* the bigrams of the neighbours among the surviving tokens
SurvivingBigrams(words) ==
    LET surviving == SurvivingOf(words)
    IN  [j \in 1..(Len(surviving) - 1) |-> surviving[j] \o "_" \o surviving[j + 1]]

\* the bigrams of the neighbours among all tokens, when both survive
AdjacentBigrams(words) ==
    LET surviving == SeqToSet(SurvivingOf(words))
        at == SelectSeq([i \in 1..(Len(words) - 1) |-> i],
                        LAMBDA i : words[i] \in surviving /\ words[i + 1] \in surviving)
    IN  [j \in 1..Len(at) |-> words[at[j]] \o "_" \o words[at[j] + 1]]

\* C25 as stated: the bigrams returned are those of every two neighbours in the
\* sequence of the surviving tokens, up to the cap of 8 entries.
C25_AsStated ==
    KeywordsDone =>
        LET bigrams == SurvivingBigrams(Tokens)
        IN  \A j \in 1..Len(bigrams) :
                j <= 8 => j <= Len(outcome.value) /\ outcome.value[j] = bigrams[j]

\* C25, amended: the bigrams returned are those of every two tokens that are
\* neighbours in the question and both survive, up to the cap of 8 entries, and
\* no other bigram is returned.
C25_AdjacentInQuestion ==
    KeywordsDone =>
        LET words == Tokens
            bigrams == AdjacentBigrams(words)
        IN  /\ \A j \in 1..Len(bigrams) :
                  j <= 8 => j <= Len(outcome.value) /\ outcome.value[j] = bigrams[j]
            /\ Len(outcome.value) <= Len(bigrams) + Len(SurvivingOf(words))

\* two surviving tokens with a discarded token between them: no bigram
C25_Witness ==
    /\ KeywordsDone
    /\ Tokens = <<"cell", "dna", "gene", "cell">>
    /\ outcome.value = <<"gene_cell", "cell", "gene", "cell">>

(***************************************************************************)
(* _suggest_review_date: the offsets                                       *)
(***************************************************************************)
\* the review date has been returned
ReviewDone == op = "_suggest_review_date" /\ pc = "done"

\* the levels from best to worst
LevelOrder ==
    <<"excellent", "good", "satisfactory", "needs_improvement",
      "requires_significant_study">>

\* the days the claim gives a level
ClaimedDays(level) ==
    CASE level = "excellent" -> 7
      [] level = "good" -> 5
      [] level = "satisfactory" -> 3
      [] level = "needs_improvement" -> 2
      [] level = "requires_significant_study" -> 1
      [] OTHER -> 3

\* C26: _suggest_review_date returns, and never raises, the date of now plus 7,
\* 5, 3, 2 or 1 days by level (3 for an unknown level), fewer days than for any
\* better level.
C26_ReviewOffsets ==
    /\ op = "_suggest_review_date" => outcome.kind # "raised"
    /\ ReviewDone =>
          /\ outcome = Returned([date_of |-> now, plus_days |-> ClaimedDays(args[1])])
          /\ \A i, j \in 1..Len(LevelOrder) :
                (i < j /\ LevelOrder[j] = args[1]) =>
                    outcome.value.plus_days < _suggest_review_date(LevelOrder[i], now).plus_days

\* the review date of a needs_improvement level, one second into the run
C26_Witness ==
    /\ ReviewDone
    /\ args = <<"needs_improvement">>
    /\ now = 1
    /\ outcome.value.plus_days = 2

\* the review date of a level the table does not hold
C26_WitnessUnknown ==
    /\ ReviewDone
    /\ args = <<"unknown">>
    /\ outcome.value.plus_days = 3

(***************************************************************************)
(* State machine: the study_notes functions of utils/database.py           *)
(***************************************************************************)
\* most save, update and delete calls in a behaviour
MaxWrites == 2

\* the analysis of alice's attempt att1
StoreAnalysis ==
    analyze_quiz_performance(QuizAttempts["att1"].answers, Quizzes["quiz1"].questions)

\* the StudyNotes of a run for the document, generated and created at the
\* instants given
Artifact(user_id, document, quiz_attempt_id, generated_notes, generated, created) ==
    StudyNotes(GeneratedNotes(StoreAnalysis, <<>>, document, generated_notes, generated),
               document, quiz_attempt_id, user_id, created)

\* alice's notes on pdf1, generated at 0 and created at 1
AliceNotes == Artifact("alice", Document, "att1", <<[section |-> "generated text"]>>, 0, 1)

\* other notes of alice on pdf1 generated in the same second: the same id
AliceOtherNotes == Artifact("alice", Document, "att1", <<>>, 0, 0)

\* bob's notes on pdf2
BobNotes == Artifact("bob", PdfDocuments["pdf2"], "att2", <<>>, 1, 1)

\* the artifacts the functions are called with
Artifacts == {AliceNotes, AliceOtherNotes, BobNotes}

\* the ids the functions are called with
ArtifactIds == {a.id : a \in Artifacts} \cup {MissingNotesId}

\* the elements of a set, one after the other
RECURSIVE SeqOfSet(_)
SeqOfSet(S) ==
    IF S = {} THEN <<>>
    ELSE LET x == CHOOSE x \in S : TRUE IN <<x>> \o SeqOfSet(S \ {x})

\* the value came back, from Firestore or from test_storage
ReturnedFrom(value, source) == [kind |-> "returned", value |-> value, source |-> source]

\* collection without the document key: doc_ref.delete() / del dict[key]
Remove(collection, key) == [k \in DOMAIN collection \ {key} |-> collection[k]]

\* what a database function leaves alone, besides the two stores and the log
StoreFrame ==
    UNCHANGED <<pc, questions, answers, pdf_document, analysis, weak_topics, max_chunks,
                ti, qi, relevant_content, calls, found, model_call, model_attempts,
                notes, raised, general_results, search_errors, rpc, request, response,
                served, _pinecone_initialized, index, init_attempts, query_results, runs>>

\* a write is made: the call, its arguments, what it gave back and the log
Write(function, argument, id, result) ==
    /\ op = "database"
    /\ Len(stages) < MaxWrites
    /\ op' = op
    /\ args' = <<function, argument>>
    /\ outcome' = result
    /\ stages' = Append(stages, [function |-> function, id |-> id, notes |-> argument,
                                 ok |-> result.kind = "returned"])
    /\ UNCHANGED now
    /\ StoreFrame

\* a read is made: the call, its arguments and what it gave back
Read(function, arguments, result) ==
    /\ op = "database"
    /\ op' = op
    /\ args' = <<function>> \o arguments
    /\ outcome' = result
    /\ UNCHANGED <<stored_notes, test_storage, stages, now>>
    /\ StoreFrame

\* mutant: save_user_notes only stores the notes of an id that is not stored yet
SaveNotes_OnlyNew ==
    \E a \in Artifacts :
        /\ stored_notes' = IF a.id \in DOMAIN stored_notes THEN stored_notes
                           ELSE Put(stored_notes, a.id, NotesDocument(a))
        /\ UNCHANGED test_storage
        /\ Write("save_user_notes", a, a.id, Returned(None))

\* lines 318-338: save_user_notes(notes), Firestore takes the document
SaveNotes ==
    \E a \in Artifacts :
        /\ stored_notes' = Put(stored_notes, a.id, NotesDocument(a))
        /\ UNCHANGED test_storage
        /\ Write("save_user_notes", a, a.id, Returned(None))

\* lines 340-346: Firestore raises; the notes are put in test_storage and the
\* exception is raised again
SaveNotesFails ==
    \E a \in Artifacts :
        /\ test_storage' = Put(test_storage, a.id, a)
        /\ UNCHANGED stored_notes
        /\ Write("save_user_notes", a, a.id, Raised("Firestore"))

\* lines 479-501: update_user_notes(notes) on a stored document: every field is
\* written, updated_at as the ISO string of datetime.now()
UpdateNotes ==
    \E a \in Artifacts :
        /\ a.id \in DOMAIN stored_notes
        /\ stored_notes' = Put(stored_notes, a.id,
                               [NotesDocument(a) EXCEPT !.updated_at = isoformat(now)])
        /\ UNCHANGED test_storage
        /\ Write("update_user_notes", a, a.id, Returned(None))

\* lines 503-509: doc_ref.update raises (also when no such document is stored)
UpdateNotesFails ==
    \E a \in Artifacts :
        /\ test_storage' = Put(test_storage, a.id, a)
        /\ UNCHANGED stored_notes
        /\ Write("update_user_notes", a, a.id, Raised("Firestore"))

\* lines 511-521: delete_user_notes(notes_id), Firestore deletes the document
DeleteNotes ==
    \E id \in ArtifactIds :
        /\ stored_notes' = Remove(stored_notes, id)
        /\ UNCHANGED test_storage
        /\ Write("delete_user_notes", None, id, Returned(None))

\* lines 523-529: Firestore raises; the copy in test_storage is deleted
DeleteNotesFails ==
    \E id \in ArtifactIds :
        /\ test_storage' = Remove(test_storage, id)
        /\ UNCHANGED stored_notes
        /\ Write("delete_user_notes", None, id, Raised("Firestore"))

\* lines 348-375: get_user_notes(notes_id), Firestore answers
GetNotes ==
    \E id \in ArtifactIds :
        Read("get_user_notes", <<id>>,
             ReturnedFrom(IF id \in DOMAIN stored_notes
                          THEN StudyNotesFrom(stored_notes[id]) ELSE NoValue, "Firestore"))

\* lines 377-385: Firestore raises and the copy in test_storage, if any, is
\* returned
GetNotesFails ==
    \E id \in ArtifactIds :
        Read("get_user_notes", <<id>>,
             ReturnedFrom(IF id \in DOMAIN test_storage THEN test_storage[id] ELSE NoValue,
                          "test_storage"))

\* the documents of the query, by created_at descending, as StudyNotes
QueryStream(selected) ==
    LET found_notes == SeqOfSet({StudyNotesFrom(stored_notes[id]) : id \in selected})
    IN  SortedDesc(found_notes, LAMBDA x : x.created_at)

\* lines 387-421: get_notes_by_pdf_id(pdf_id, user_id), Firestore answers
GetNotesByPdf ==
    \E pdf_id \in DOMAIN PdfDocuments, user_id \in Users :
        Read("get_notes_by_pdf_id", <<pdf_id, user_id>>,
             ReturnedFrom(QueryStream({id \in DOMAIN stored_notes :
                                          /\ stored_notes[id].pdf_id = pdf_id
                                          /\ stored_notes[id].user_id = user_id}),
                          "Firestore"))

\* lines 423-431: Firestore raises and the matching notes of test_storage are
\* returned
GetNotesByPdfFails ==
    \E pdf_id \in DOMAIN PdfDocuments, user_id \in Users :
        Read("get_notes_by_pdf_id", <<pdf_id, user_id>>,
             ReturnedFrom(SeqOfSet({test_storage[id] : id \in
                                       {id \in DOMAIN test_storage :
                                           /\ test_storage[id].pdf_id = pdf_id
                                           /\ test_storage[id].user_id = user_id}}),
                          "test_storage"))

\* lines 433-466: get_all_user_notes_from_db(user_id), Firestore answers
GetAllNotes ==
    \E user_id \in Users :
        Read("get_all_user_notes_from_db", <<user_id>>,
             ReturnedFrom(QueryStream({id \in DOMAIN stored_notes :
                                          stored_notes[id].user_id = user_id}),
                          "Firestore"))

\* lines 468-478: Firestore raises and the user's notes of test_storage are
\* returned, sorted by created_at descending
GetAllNotesFails ==
    \E user_id \in Users :
        Read("get_all_user_notes_from_db", <<user_id>>,
             ReturnedFrom(SortedDesc(SeqOfSet({test_storage[id] : id \in
                                                  {id \in DOMAIN test_storage :
                                                      test_storage[id].user_id = user_id}}),
                                     LAMBDA x : x.created_at),
                          "test_storage"))

\* the module is imported: both stores hold no notes
InitStore ==
    /\ op = "database"
    /\ pc = "wait"
    /\ questions = <<>>
    /\ answers = <<>>
    /\ weak_topics = <<>>
    /\ max_chunks = 15
    /\ Idle

\* a second passes on the server's clock
StoreTick ==
    /\ op = "database"
    /\ now < MaxClock
    /\ now' = now + 1
    /\ UNCHANGED <<op, stages, stored_notes, test_storage, args, outcome>>
    /\ StoreFrame

NextStore ==
    \/ SaveNotes
    \/ SaveNotesFails
    \/ UpdateNotes
    \/ UpdateNotesFails
    \/ DeleteNotes
    \/ DeleteNotesFails
    \/ GetNotes
    \/ GetNotesFails
    \/ GetNotesByPdf
    \/ GetNotesByPdfFails
    \/ GetAllNotes
    \/ GetAllNotesFails
    \/ StoreTick

SpecStore == InitStore /\ [][NextStore]_vars

(***************************************************************************)
(* The study_notes functions: what is read after what was written          *)
(***************************************************************************)
\* the last call was the read named
ReadOf(function) == op = "database" /\ Len(args) >= 1 /\ args[1] = function

\* save_user_notes(a) returned, and no later save, update or delete was called
\* for a.id
SavedLast(a) ==
    \E i \in 1..Len(stages) :
        /\ stages[i].function = "save_user_notes"
        /\ stages[i].ok
        /\ stages[i].notes = a
        /\ \A j \in (i + 1)..Len(stages) : stages[j].id # a.id

\* the two StudyNotes are equal field for field, the datetimes as ISO strings
SameFields(x, y) ==
    /\ DOMAIN x = DOMAIN y
    /\ \A field \in DOMAIN x : NotesDocument(x)[field] = NotesDocument(y)[field]

SaveFailed(a) ==
    /\ \E i \in 1..Len(stages) :
          stages[i].function = "save_user_notes" /\ ~stages[i].ok /\ stages[i].notes = a
    /\ \A i \in 1..Len(stages) :
          (stages[i].function # "delete_user_notes" /\ stages[i].ok) => stages[i].notes # a

\* the notes the last read returned
ReturnedNotes ==
    IF ReadOf("get_user_notes") THEN {outcome.value}
    ELSE IF ReadOf("get_notes_by_pdf_id") \/ ReadOf("get_all_user_notes_from_db")
         THEN SeqToSet(outcome.value)
         ELSE {}

\* C29: notes whose save was reported as failed are returned by no later
\* get_user_notes, get_notes_by_pdf_id or get_all_user_notes_from_db, whether
\* Firestore answers that call or fails.
C29_FailedSaveInvisible ==
    \A a \in Artifacts : SaveFailed(a) => a \notin ReturnedNotes

(***************************************************************************)
(* The notes endpoints: the rejections                                     *)
(***************************************************************************)
\* the handler rejected the request with an HTTPException of its own
Rejected ==
    /\ response.kind = "HTTPException"
    /\ response.detail.error.type = "HTTPException"

\* C28: the 403 and 404 a notes handler raises (generate_study_notes for a
\* foreign attempt or document, get_study_notes for an unknown or foreign notes
\* id, regenerate_study_notes for missing or foreign notes) reach the caller with
\* that status code and detail.
C28_RejectionDelivered ==
    Rejected =>
        /\ response.status_code = response.detail.error.status_code
        /\ response.detail.prefix = ""

(***************************************************************************)
(* generate_study_notes: the recommendations and the statistics            *)
(***************************************************************************)
\* the block of recommendations generate_study_recommendations has for a level
BlockOf(level) ==
    IF level \in {"requires_significant_study", "needs_improvement", "satisfactory"}
    THEN level
    ELSE "maintain"

\* C30: the NotesResponse of generate_study_notes carries the recommendation
\* block of the level the analysis of the attempt computed, names its first three
\* weak topics, and counts its weak topics and reports its score in
\* generation_stats, whether the model or the fallback wrote the notes.
C30_FollowsAnalysis ==
    (Generating /\ response.kind = "NotesResponse") =>
        /\ BlockOf(response.recommendations.level) = BlockOf(analysis.performance_level)
        /\ response.recommendations.attention = Slice(analysis.weak_topics, 3)
        /\ response.generation_stats.weak_areas_identified = Len(analysis.weak_topics)
        /\ response.generation_stats.performance_score = analysis.score_percentage

(***************************************************************************)
(* State machine: two pipeline runs on the shared notes_service            *)
(*                                                                         *)
(* Each run is a call of create_comprehensive_notes on the one             *)
(* NotesGeneratorService of routers/notes.py; the calls take turns at their *)
(* awaits. The locals of a run are a record of runs; the EmbeddingService  *)
(* of the instance (_pinecone_initialized, index) is shared.               *)
(***************************************************************************)
RunIds == {1, 2}

\* what the retriever holds for the queries of a run: nothing; a chunk for the
\* first and for the third query of a topic; a chunk for the general query only
Scripts == {"silent", "topic", "general"}

\* the answer of the index to query number k of a topic (0: the general query)
ScriptedResponse(script, k) ==
    CASE script = "topic" /\ k = 1 -> <<Match(90, 0)>>
      [] script = "topic" /\ k = 3 -> <<Match(70, 0), Match(70, 1)>>
      [] script = "general" /\ k = 0 -> <<Match(70, 1)>>
      [] OTHER -> <<>>

\* the locals of a run that is about to start for the attempt
RunOf(quiz_attempt_id, script) ==
    [pc |-> "analyze",
     quiz_attempt_id |-> quiz_attempt_id,
     script |-> script,
     questions |-> Quizzes[QuizAttempts[quiz_attempt_id].quiz_id].questions,
     answers |-> QuizAttempts[quiz_attempt_id].answers,
     pdf_document |-> Document,
     analysis |-> None,
     weak_topics |-> <<>>,
     ti |-> 1,
     qi |-> 1,
     relevant_content |-> <<>>,
     unanswered |-> 0,
     found |-> None,
     model_call |-> None,
     notes |-> None,
     interleaved |-> FALSE]

\* two runs for different attempts are about to start
InitConcurrent ==
    /\ op = "concurrent"
    /\ pc = "wait"
    /\ questions = <<>>
    /\ answers = <<>>
    /\ weak_topics = <<>>
    /\ max_chunks = 15
    /\ pdf_document = Document
    /\ analysis = None
    /\ ti = 1
    /\ qi = 1
    /\ relevant_content = <<>>
    /\ calls = <<>>
    /\ found = None
    /\ model_call = None
    /\ model_attempts = 0
    /\ notes = None
    /\ raised = FALSE
    /\ now = 0
    /\ general_results = <<>>
    /\ search_errors = "none"
    /\ stages = <<>>
    /\ rpc = None
    /\ request = None
    /\ stored_notes = Empty
    /\ test_storage = Empty
    /\ response = Pending
    /\ served = 0
    /\ args = <<>>
    /\ outcome = NoResult
    /\ _pinecone_initialized = FALSE
    /\ index = None
    /\ init_attempts = 0
    /\ query_results = <<>>
    /\ \E first \in {"att1", "att2"}, s1 \in Scripts, s2 \in Scripts :
          runs = [r \in RunIds |-> IF r = 1
                                 THEN RunOf(first, s1)
                                 ELSE RunOf(IF first = "att1" THEN "att2" ELSE "att1", s2)]

\* what a step of a run leaves alone
RunFrame ==
    UNCHANGED <<op, pc, questions, answers, pdf_document, analysis, weak_topics,
                max_chunks, ti, qi, relevant_content, calls, found, model_call,
                model_attempts, notes, raised, now, general_results, search_errors,
                stages, routerVars, args, outcome, query_results>>

\* the other run has started and has not returned
Overlaps(r) == \E o \in RunIds \ {r} : runs[o].pc \notin {"analyze", "done"}

\* mutant: relevant_content is an attribute of the shared service, set by the
\* run that came first
ContentOf_Shared(r) == runs[1].relevant_content

\* notes_generator.py line 149: relevant_content is a local of the call
ContentOf(r) == runs[r].relevant_content

\* the run takes a step that gives it the locals given
Step(r, locals) ==
    runs' = [runs EXCEPT ![r] = [locals EXCEPT !.interleaved = @ \/ Overlaps(r)]]

\* lines 563-564: the run analyses its attempt
RunAnalyzes(r) ==
    /\ op = "concurrent"
    /\ runs[r].pc = "analyze"
    /\ LET performance_analysis == analyze_quiz_performance(runs[r].answers, runs[r].questions)
       IN  Step(r, [runs[r] EXCEPT
                      !.analysis = performance_analysis,
                      !.weak_topics = performance_analysis.weak_topics,
                      !.pc = IF performance_analysis.weak_topics = <<>>
                             THEN AfterTopics(<<>>) ELSE "search"])
    /\ UNCHANGED <<_pinecone_initialized, index, init_attempts>>
    /\ RunFrame

\* embeddings.py lines 117-122 on the shared EmbeddingService: _init_pinecone
\* connects or fails to when no earlier call has connected
SharedSearch(connects) ==
    /\ _pinecone_initialized' = (_pinecone_initialized \/ connects)
    /\ index' = IF ~_pinecone_initialized /\ connects THEN "Index" ELSE index
    /\ init_attempts' = IF _pinecone_initialized THEN init_attempts ELSE init_attempts + 1

\* what similarity_search returns to the run for query number k
Heard(r, k) == IF index' = None THEN <<>> ELSE ScriptedResponse(runs[r].script, k)

\* lines 160-178: one topic query of the run
RunTopicSearch(r, connects) ==
    /\ op = "concurrent"
    /\ runs[r].pc = "search"
    /\ SharedSearch(connects)
    /\ LET run == runs[r]
           topic == run.weak_topics[run.ti]
           items == TopicItems(topic, TopicQuery(run.qi, topic), Heard(r, run.qi))
           content == ContentOf(r) \o items
           last == run.qi = NumQueries /\ run.ti = Len(run.weak_topics)
       IN  Step(r, [run EXCEPT
                      !.relevant_content = content,
                      !.unanswered = IF index' = None THEN @ + 1 ELSE @,
                      !.qi = IF run.qi < NumQueries THEN run.qi + 1 ELSE 1,
                      !.ti = IF run.qi < NumQueries THEN run.ti ELSE run.ti + 1,
                      !.pc = IF last THEN AfterTopics(content) ELSE "search"])
    /\ RunFrame

\* lines 184-202: the general query of the run
RunGeneralSearch(r, connects) ==
    /\ op = "concurrent"
    /\ runs[r].pc = "general"
    /\ SharedSearch(connects)
    /\ Step(r, [runs[r] EXCEPT
                  !.relevant_content = ContentOf(r) \o GeneralItems(Heard(r, 0)),
                  !.unanswered = IF index' = None THEN @ + 1 ELSE @,
                  !.pc = "rank"])
    /\ RunFrame

\* lines 206-215: the content is ranked and returned
RunRanks(r) ==
    /\ op = "concurrent"
    /\ runs[r].pc = "rank"
    /\ Step(r, [runs[r] EXCEPT !.found = RankContent(ContentOf(r), 15),
                               !.pc = "generate"])
    /\ UNCHANGED <<_pinecone_initialized, index, init_attempts>>
    /\ RunFrame

\* lines 340-372 (called at 582-586): the model answers, or raises
RunGenerates(r, model_outcome) ==
    /\ op = "concurrent"
    /\ runs[r].pc = "generate"
    /\ LET run == runs[r]
       IN  Step(r, [run EXCEPT
                      !.model_call = model_outcome,
                      !.notes = IF model_outcome = "raised"
                                THEN _create_fallback_notes(run.analysis, run.found,
                                                            run.pdf_document, now)
                                ELSE GeneratedNotes(run.analysis, run.found, run.pdf_document,
                                                    <<[section |-> "generated text"]>>, now),
                      !.pc = "done"])
    /\ UNCHANGED <<_pinecone_initialized, index, init_attempts>>
    /\ RunFrame

NextConcurrent ==
    \/ \E r \in RunIds : RunAnalyzes(r)
    \/ \E r \in RunIds, connects \in BOOLEAN : RunTopicSearch(r, connects)
    \/ \E r \in RunIds, connects \in BOOLEAN : RunGeneralSearch(r, connects)
    \/ \E r \in RunIds : RunRanks(r)
    \/ \E r \in RunIds : RunGenerates(r, "returned")
    \/ \E r \in RunIds : RunGenerates(r, "raised")

SpecConcurrent == InitConcurrent /\ [][NextConcurrent]_vars

(***************************************************************************)
(* Two runs: each as if it ran alone                                       *)
(***************************************************************************)
\* the items of the first c topic queries of a run made alone, its first
\* unanswered queries finding no index
RECURSIVE AloneTopicContent(_, _, _)
AloneTopicContent(run, topics, c) ==
    IF c = 0 THEN <<>>
    ELSE LET t == ((c - 1) \div NumQueries) + 1
             q == ((c - 1) % NumQueries) + 1
             heard == IF c <= run.unanswered THEN <<>> ELSE ScriptedResponse(run.script, q)
         IN  AloneTopicContent(run, topics, c - 1)
                 \o TopicItems(topics[t], TopicQuery(q, topics[t]), heard)

\* what create_comprehensive_notes gives a run made alone for the same attempt,
\* the same answers of the retriever and of the model, at the same instant
Alone(run) ==
    LET performance_analysis == analyze_quiz_performance(run.answers, run.questions)
        topics == performance_analysis.weak_topics
        n == Len(topics) * NumQueries
        topical == AloneTopicContent(run, topics, n)
        general == IF n + 1 <= run.unanswered THEN <<>> ELSE ScriptedResponse(run.script, 0)
        content == IF topical = <<>> THEN GeneralItems(general) ELSE topical
        ranked == RankContent(content, 15)
    IN  [analysis |-> performance_analysis,
         found |-> ranked,
         notes |-> IF run.model_call = "raised"
                   THEN _create_fallback_notes(performance_analysis, ranked,
                                               run.pdf_document, now)
                   ELSE GeneratedNotes(performance_analysis, ranked, run.pdf_document,
                                       <<[section |-> "generated text"]>>, now)]

\* C22: a run that took turns with a run for another attempt on the shared
\* service returns the analysis, the content list and the notes it returns when
\* made alone with the same answers of the retriever and of the model.
C22_Isolated ==
    \A r \in DOMAIN runs :
        runs[r].pc = "done" =>
            /\ runs[r].analysis = Alone(runs[r]).analysis
            /\ runs[r].found = Alone(runs[r]).found
            /\ runs[r].notes = Alone(runs[r]).notes

\* both runs returned after taking turns; the first connected to the index late
\* and found content, the second found other content
C22_Witness ==
    /\ op = "concurrent"
    /\ \A r \in RunIds : runs[r].pc = "done" /\ runs[r].interleaved
    /\ runs[1].unanswered = 2
    /\ Len(runs[1].found) = 2
    /\ Len(runs[2].found) = 1
    /\ runs[1].found # runs[2].found

====
